---- MODULE Spec2Model ----
(***************************************************************************)
(* Arobytess ("Gaun Roots"): the user ledger, the alert registrations and  *)
(* the marketplace, as the request handlers of src/main.py, the older      *)
(* handlers of src/backend/main.py and the table layer of src/database.py  *)
(* implement them.                                                         *)
(*                                                                         *)
(* Each handler is one action: it reads the whole collection, changes it   *)
(* and writes it back, and leaves its HTTP response in resp.  The table    *)
(* layer's functions are actions too; what they return is left in resp.    *)
(*                                                                         *)
(* The three sources are three deployments with separate data: variant     *)
(* names the one a behaviour runs ("main", "backend" or "database"), or is *)
(* "both" where the file-backed and the table-backed marketplace are fed   *)
(* the same calls side by side.                                            *)
(*                                                                         *)
(* The disease reports, the mail sender and the classifier handle of       *)
(* src/main.py follow; two requests racing on users.json are followed      *)
(* read by read and write by write.                                        *)
(***************************************************************************)
EXTENDS Integers, Sequences, FiniteSets, TLC

VARIABLES
    variant,    \* which source serves the requests
    month,      \* the calendar month datetime.now() falls in, counted from 1
    users,      \* users.json: the list of user records
    alerts,     \* alert_registrations.json
    products,   \* products.json
    db,         \* arobytess.db: its tables, each in rowid order, and sqlite_sequence
    reports,    \* disease_reports.json
    env,        \* EMAIL_ADDRESS, EMAIL_PASSWORD, COMMUNITY_EMAIL as os.getenv found them
    mail,       \* what the last request handed to the SMTP relay, and how that ended
    plant_model, \* the global classifier handle: None, or the loaded model
    threads,    \* per worker thread of a racing request: its position and its locals
    resp,       \* the response of the last call
    call,       \* history: the last call, its arguments, and what it found stored
    fresh,      \* history: per user id, the use-token calls since registration,
                \* or -1 once a month change, a purchase or a PUT of tokens came between
    credited,   \* history: per user id, the balance the user started with
                \* (0, or what a PUT set) plus the amounts added since
    hist        \* history: what the later specifications note down (see Start)

vars == <<variant, month, users, alerts, products, db, reports, env, mail, plant_model,
          threads, resp, call, fresh, credited, hist>>

(***************************************************************************)
(* Bounds and input sets.                                                  *)
(***************************************************************************)
\* the clock is followed over this many calendar months
MaxMonth == 2
\* a purchase is followed while the balance stays at or below this
MaxTokens == 6

\* the use-token calls on a fresh user are counted up to this many ("or more")
MaxUses == 7

\* a balance of credits is followed while it stays within this of zero
MaxCredits == 100
\* products.json is followed up to this many products
MaxProducts == 2
\* the products table is followed up to this many inserted rows
MaxRowid == 3
\* a product's views are followed up to this many
MaxViews == 3

\* disease_reports.json is followed up to this many reports
MaxReports == 2

\* disease_reports.json is followed up to this many reports where the reports
\* are listed: one more than a listing returns
MaxRecent == 11

\* requests on users.json that overlap are followed up to this many requests
MaxRequests == 2

\* the two marketplaces are followed side by side up to this many calls
MaxCalls == 4

\* the classifier is followed up to this many calls of initialize_plant_model
MaxLoads == 4

\* names are strings of ASCII codes: "ra", "Ra", "RA", "si"
ra == <<114, 97>>
Ra == <<82, 97>>
RA == <<82, 65>>
si == <<115, 105>>
\* the names and types offered to register and to login
RegNames == {ra, Ra}
Names == {ra, Ra, RA, si}
Types == {"farmer", "vet"}
LoginTypes == {"farmer", "Farmer", "vet"}
\* the names and the type the token ledger is followed with
LedgerNames == {ra, si}
LedgerLogins == {Ra, si}
LedgerTypes == {"farmer"}
\* user ids tried by the calls that take an id
Ids == {1, 2}
Quantities == {0, 1, 2}
\* the amounts offered to add-credits, and the credits a PUT may carry
Amounts == {-20, 0, 50}
PutCredits == {<<7>>}
\* the names offered to add-friend
FriendNames == {"Sita", "Gita"}
\* the request bodies offered to register-alerts: two phone numbers, each under
\* two farmers whose crop types and alert radius differ as well
Phones == {"9800000001", "9800000002"}
AlertBodies ==
    {[farmerName |-> "Hari", phoneNumber |-> p, cropTypes |-> "rice", alertRadius |-> 5] :
        p \in Phones}
    \cup
    {[farmerName |-> "Maya", phoneNumber |-> p, cropTypes |-> "maize", alertRadius |-> 10] :
        p \in Phones}
\* the product offered to the marketplace, and the product ids tried
ProductBodies ==
    {[name |-> "Seeds", price |-> 100, description |-> "1 kg", type |-> "seed",
      phone |-> "9800000001"]}
ProductIds == {1, 2, 3}
\* places are strings of ASCII codes too: "Bharatpur", "Pokhara"
Bharatpur == <<66, 104, 97, 114, 97, 116, 112, 117, 114>>
Pokhara == <<80, 111, 107, 104, 97, 114, 97>>
\* the location filters offered to the listings: none (or ""), "pur", "PUR",
\* "kh", "b_a", "%"
Filters == {<<>>, <<112, 117, 114>>, <<80, 85, 82>>, <<107, 104>>, <<98, 95, 97>>, <<37>>}
\* the limits offered to the table layer's listing; 10 is its default
Limits == {2, 10}
\* what os.getenv may have found: each setting present or empty
Environments ==
    [EMAIL_ADDRESS : {"", "gaunroots@gmail.com"},
     EMAIL_PASSWORD : {"", "app-password"},
     COMMUNITY_EMAIL : {"", "community@gmail.com"}]
\* what the SMTP relay may do with a message
Relays == {"accepts", "rejects"}
\* the request bodies offered to report-disease; the caller's location is ignored
ReportBodies ==
    {[diseaseName |-> "Late Blight", cropType |-> "Tomato", severity |-> "high",
      description |-> <<>>, location |-> Pokhara],
     [diseaseName |-> "Rust", cropType |-> "Wheat", severity |-> "low",
      description |-> <<>>, location |-> Bharatpur]}
\* the one body offered where the reports are listed
RecentBodies ==
    {[diseaseName |-> "Late Blight", cropType |-> "Tomato", severity |-> "high",
      description |-> <<>>, location |-> Pokhara]}
\* the request bodies offered to send-alert
EmailAlerts ==
    {[email |-> "farmer@gmail.com", disease |-> "Late Blight", crop |-> "Tomato",
      location |-> "Kathmandu Valley"]}
\* the bodies offered to a PUT of a user: each field absent, or present with a
\* value, falsy ones included; and the arguments offered to the table layer
UserUpdates ==
    [credits : {<<>>, <<0>>, <<7>>},
     friends : {<<>>, << <<>> >>, << <<"Sita">> >>},
     tokens : {<<>>, <<3>>}]
TableUpdates ==
    [credits : {<<>>, <<0>>, <<7>>},
     tokens : {<<>>, <<3>>},
     last_token_reset : {<<>>, <<2>>}]
\* Python's None; an Optional field of a request body is None or <<v>>, carrying v
None == <<>>
\* the tokens a PUT may carry
PutTokens == {None, <<-1>>}

(***************************************************************************)
(* Python helpers.                                                         *)
(***************************************************************************)
\* str.lower() on one ASCII character
LowerChar(c) ==
    IF c >= 65 /\ c <= 90 THEN c + 32 ELSE c

\* a lower() that folds nothing (mutant of Lower)
Lower_folding_nothing(s) ==
    s

\* str.lower()
Lower(s) ==
    [i \in DOMAIN s |-> LowerChar(s[i])]

\* dict.get(key, default)
Get(d, key, default) ==
    IF key \in DOMAIN d THEN d[key] ELSE default

\* d[key] = value
Put(d, key, value) ==
    [k \in DOMAIN d \cup {key} |-> IF k = key THEN value ELSE d[k]]

\* the first index of a list that satisfies a test (0 when none does):
\* "for i, u in enumerate(xs): if test: ..."
FirstIndex(S) ==
    IF S = {} THEN 0 ELSE CHOOSE i \in S : \A j \in S : i <= j

\* the first user a register or login request matches
MatchNameType(us, name, type) ==
    FirstIndex({i \in DOMAIN us :
        Lower(us[i]["name"]) = Lower(name) /\ us[i]["type"] = type})

\* the first user with the id
MatchId(us, id) ==
    FirstIndex({i \in DOMAIN us : us[i]["id"] = id})

\* raise HTTPException(status_code, detail)
HTTPException(op, status_code, detail) ==
    [op |-> op, status |-> status_code, body |-> [detail |-> detail]]

\* a handler's return value, sent with status 200
Return(op, body) ==
    [op |-> op, status |-> 200, body |-> body]

(***************************************************************************)
(* src/main.py: the user ledger.                                           *)
(***************************************************************************)
\* Rs per token, in hundredths of a rupee (49.99)
TOKEN_PRICE == 4999

\* the free tokens of a month
FREE_TOKENS == 5

get_current_month == month

\* a monthly check that adds the free tokens to the balance
\* (mutant of check_and_reset_monthly_tokens)
check_and_reset_adding(user) ==
    IF Get(user, "lastTokenReset", 0) # get_current_month
    THEN [user |-> Put(Put(user, "tokens", Get(user, "tokens", 0) + FREE_TOKENS),
                       "lastTokenReset", get_current_month),
          reset |-> TRUE]
    ELSE [user |-> user, reset |-> FALSE]

\* the user after the monthly check, and whether it was reset
check_and_reset_monthly_tokens(user) ==
    IF Get(user, "lastTokenReset", 0) # get_current_month
    THEN [user |-> Put(Put(user, "tokens", FREE_TOKENS),
                       "lastTokenReset", get_current_month),
          reset |-> TRUE]
    ELSE [user |-> user, reset |-> FALSE]

\* a register that refuses a name already stored under any type
\* (mutant of register_user)
register_user_any_type(name, type) ==
    IF \E k \in DOMAIN users : Lower(users[k]["name"]) = Lower(name)
    THEN /\ resp' = HTTPException("register", 400, "User already exists")
         /\ UNCHANGED users
    ELSE LET new_user == [id |-> Len(users) + 1,
                          name |-> name,
                          type |-> type,
                          credits |-> 0,
                          friends |-> <<>>,
                          tokens |-> 5,
                          lastTokenReset |-> get_current_month]
         IN /\ users' = Append(users, new_user)
            /\ resp' = Return("register", new_user)

register_user(name, type) ==
    IF MatchNameType(users, name, type) # 0
    THEN /\ resp' = HTTPException("register", 400, "User already exists")
         /\ UNCHANGED users
    ELSE LET new_user == [id |-> Len(users) + 1,
                          name |-> name,
                          type |-> type,
                          credits |-> 0,
                          friends |-> <<>>,
                          tokens |-> 5,
                          lastTokenReset |-> get_current_month]
         IN /\ users' = Append(users, new_user)
            /\ resp' = Return("register", new_user)

login_user(name, type) ==
    LET i == MatchNameType(users, name, type)
        r == check_and_reset_monthly_tokens(users[i])
    IN IF i = 0
       THEN /\ resp' = HTTPException("login", 404, "User not found")
            /\ UNCHANGED users
       ELSE /\ users' = IF r.reset THEN [users EXCEPT ![i] = r.user] ELSE users
            /\ resp' = Return("login", r.user)

get_user_tokens(user_id) ==
    LET i == MatchId(users, user_id)
        r == check_and_reset_monthly_tokens(users[i])
    IN IF i = 0
       THEN /\ resp' = HTTPException("tokens", 404, "User not found")
            /\ UNCHANGED users
       ELSE /\ users' = IF r.reset THEN [users EXCEPT ![i] = r.user] ELSE users
            /\ resp' = Return("tokens",
                   [tokens |-> Get(r.user, "tokens", 0),
                    lastReset |-> Get(r.user, "lastTokenReset", 0),
                    pricePerToken |-> TOKEN_PRICE])

\* a purchase that lets a quantity of 0 through (mutant of purchase_tokens)
purchase_tokens_from_zero(user_id, quantity) ==
    LET i == MatchId(users, user_id)
        current_tokens == Get(users[i], "tokens", 0)
        user == Put(users[i], "tokens", current_tokens + quantity)
    IN IF quantity < 0
       THEN /\ resp' = HTTPException("purchase", 400, "Quantity must be at least 1")
            /\ UNCHANGED users
       ELSE IF i = 0
       THEN /\ resp' = HTTPException("purchase", 404, "User not found")
            /\ UNCHANGED users
       ELSE /\ users' = [users EXCEPT ![i] = user]
            /\ resp' = Return("purchase",
                   [success |-> TRUE,
                    tokens |-> user["tokens"],
                    totalCost |-> quantity * TOKEN_PRICE])

purchase_tokens(user_id, quantity) ==
    LET i == MatchId(users, user_id)
        current_tokens == Get(users[i], "tokens", 0)
        user == Put(users[i], "tokens", current_tokens + quantity)
    IN IF quantity < 1
       THEN /\ resp' = HTTPException("purchase", 400, "Quantity must be at least 1")
            /\ UNCHANGED users
       ELSE IF i = 0
       THEN /\ resp' = HTTPException("purchase", 404, "User not found")
            /\ UNCHANGED users
       ELSE /\ users' = [users EXCEPT ![i] = user]
            /\ resp' = Return("purchase",
                   [success |-> TRUE,
                    tokens |-> user["tokens"],
                    totalCost |-> quantity * TOKEN_PRICE])

\* a use_token that stores the debit before it looks at the balance
\* (mutant of use_token)
use_token_debiting_first(user_id) ==
    LET i == MatchId(users, user_id)
        r == check_and_reset_monthly_tokens(users[i])
        current_tokens == Get(r.user, "tokens", 0)
        user == Put(r.user, "tokens", current_tokens - 1)
    IN IF i = 0
       THEN /\ resp' = HTTPException("use", 404, "User not found")
            /\ UNCHANGED users
       ELSE /\ users' = [users EXCEPT ![i] = user]
            /\ IF current_tokens < 1
               THEN resp' = HTTPException("use", 402, "Insufficient tokens")
               ELSE resp' = Return("use",
                        [success |-> TRUE, remainingTokens |-> user["tokens"]])

\* a debit that is refused only below a balance of 0 (mutant of use_token)
use_token_below_zero(user_id) ==
    LET i == MatchId(users, user_id)
        r == check_and_reset_monthly_tokens(users[i])
        current_tokens == Get(r.user, "tokens", 0)
        user == Put(r.user, "tokens", current_tokens - 1)
    IN IF i = 0
       THEN /\ resp' = HTTPException("use", 404, "User not found")
            /\ UNCHANGED users
       ELSE IF current_tokens < 0
       THEN /\ resp' = HTTPException("use", 402, "Insufficient tokens")
            /\ UNCHANGED users
       ELSE /\ users' = [users EXCEPT ![i] = user]
            /\ resp' = Return("use",
                   [success |-> TRUE, remainingTokens |-> user["tokens"]])

use_token(user_id) ==
    LET i == MatchId(users, user_id)
        r == check_and_reset_monthly_tokens(users[i])
        current_tokens == Get(r.user, "tokens", 0)
        user == Put(r.user, "tokens", current_tokens - 1)
    IN IF i = 0
       THEN /\ resp' = HTTPException("use", 404, "User not found")
            /\ UNCHANGED users
       ELSE IF current_tokens < 1
       THEN /\ resp' = HTTPException("use", 402, "Insufficient tokens")
            /\ UNCHANGED users
       ELSE /\ users' = [users EXCEPT ![i] = user]
            /\ resp' = Return("use",
                   [success |-> TRUE, remainingTokens |-> user["tokens"]])

\* PUT /api/users/{user_id}: a field that is None is left alone
\* an update_user that writes every field, an absent one as empty (mutant of
\* update_user)
update_user_resetting_absent(user_id, credits, friends, tokens) ==
    LET i == MatchId(users, user_id)
        u1 == Put(users[i], "credits", IF credits # None THEN credits[1] ELSE 0)
        u2 == Put(u1, "friends", IF friends # None THEN friends[1] ELSE <<>>)
        u3 == Put(u2, "tokens", IF tokens # None THEN tokens[1] ELSE 0)
    IN IF i = 0
       THEN /\ resp' = HTTPException("update", 404, "User not found")
            /\ UNCHANGED users
       ELSE /\ users' = [users EXCEPT ![i] = u3]
            /\ resp' = Return("update", u3)

update_user(user_id, credits, friends, tokens) ==
    LET i == MatchId(users, user_id)
        u1 == IF credits # None THEN Put(users[i], "credits", credits[1]) ELSE users[i]
        u2 == IF friends # None THEN Put(u1, "friends", friends[1]) ELSE u1
        u3 == IF tokens # None THEN Put(u2, "tokens", tokens[1]) ELSE u2
    IN IF i = 0
       THEN /\ resp' = HTTPException("update", 404, "User not found")
            /\ UNCHANGED users
       ELSE /\ users' = [users EXCEPT ![i] = u3]
            /\ resp' = Return("update", u3)

\* the calendar moves on to the next month
NextMonth ==
    /\ month < MaxMonth
    /\ month' = month + 1
    /\ UNCHANGED <<users, resp>>

\* an add_credits that never lets the balance go below zero (mutant of add_credits)
add_credits_floored_at_zero(user_id, amount) ==
    LET i == MatchId(users, user_id)
        current_credits == Get(users[i], "credits", 0)
        user == Put(users[i], "credits",
                    IF current_credits + amount < 0 THEN 0 ELSE current_credits + amount)
    IN IF i = 0
       THEN /\ resp' = HTTPException("add_credits", 404, "User not found")
            /\ UNCHANGED users
       ELSE /\ users' = [users EXCEPT ![i] = user]
            /\ resp' = Return("add_credits", user)

add_credits(user_id, amount) ==
    LET i == MatchId(users, user_id)
        current_credits == Get(users[i], "credits", 0)
        user == Put(users[i], "credits", current_credits + amount)
    IN IF i = 0
       THEN /\ resp' = HTTPException("add_credits", 404, "User not found")
            /\ UNCHANGED users
       ELSE /\ users' = [users EXCEPT ![i] = user]
            /\ resp' = Return("add_credits", user)

\* friend_name in a list
InList(x, list) ==
    \E k \in DOMAIN list : list[k] = x

\* an add_friend that appends without looking (mutant of add_friend)
add_friend_appending_always(user_id, friend_name) ==
    LET i == MatchId(users, user_id)
        u1 == IF "friends" \notin DOMAIN users[i]
              THEN Put(users[i], "friends", <<>>) ELSE users[i]
        u2 == Put(u1, "friends", Append(u1["friends"], friend_name))
    IN IF i = 0
       THEN /\ resp' = HTTPException("add_friend", 404, "User not found")
            /\ UNCHANGED users
       ELSE /\ users' = [users EXCEPT ![i] = u2]
            /\ resp' = Return("add_friend", u2)

add_friend(user_id, friend_name) ==
    LET i == MatchId(users, user_id)
        u1 == IF "friends" \notin DOMAIN users[i]
              THEN Put(users[i], "friends", <<>>) ELSE users[i]
        u2 == IF ~InList(friend_name, u1["friends"])
              THEN Put(u1, "friends", Append(u1["friends"], friend_name)) ELSE u1
    IN IF i = 0
       THEN /\ resp' = HTTPException("add_friend", 404, "User not found")
            /\ UNCHANGED users
       ELSE /\ users' = [users EXCEPT ![i] = u2]
            /\ resp' = Return("add_friend", u2)

(***************************************************************************)
(* src/backend/main.py: the older handlers, which know no tokens.          *)
(***************************************************************************)
backend_register_user(name, type) ==
    IF MatchNameType(users, name, type) # 0
    THEN /\ resp' = HTTPException("register", 400, "User already exists")
         /\ UNCHANGED users
    ELSE LET new_user == [id |-> Len(users) + 1,
                          name |-> name,
                          type |-> type,
                          credits |-> 0,
                          friends |-> <<>>]
         IN /\ users' = Append(users, new_user)
            /\ resp' = Return("register", new_user)

backend_add_credits(user_id, amount) ==
    LET user_idx == MatchId(users, user_id)
        user == Put(users[user_idx], "credits",
                    Get(users[user_idx], "credits", 0) + amount)
    IN IF user_idx = 0
       THEN /\ resp' = HTTPException("add_credits", 404, "User not found")
            /\ UNCHANGED users
       ELSE /\ users' = [users EXCEPT ![user_idx] = user]
            /\ resp' = Return("add_credits", user)

(***************************************************************************)
(* src/main.py: the alert registrations.                                   *)
(***************************************************************************)
\* dict.update(other)
Update(d, other) ==
    [k \in DOMAIN d \cup DOMAIN other |-> IF k \in DOMAIN other THEN other[k] ELSE d[k]]

\* the fixed stamp the handlers write for "now"
Stamp == "2024-12-14T00:00:00Z"

\* a register_for_alerts that never looks for the phone number (mutant of
\* register_for_alerts)
register_for_alerts_appending_always(registration) ==
    LET detected_location == "Bharatpur"
        new_reg == Put(Put(Put(Put(registration,
                                   "id", Len(alerts) + 1),
                               "location", detected_location),
                           "registeredAt", Stamp),
                       "isActive", TRUE)
    IN /\ alerts' = Append(alerts, new_reg)
       /\ resp' = Return("register_for_alerts",
                         [success |-> TRUE,
                          message |-> "Alert registration successful for Bharatpur",
                          registration |-> new_reg])

\* registration: the request body, farmerName, phoneNumber, cropTypes, alertRadius
register_for_alerts(registration) ==
    LET i == FirstIndex({k \in DOMAIN alerts :
                 alerts[k]["phoneNumber"] = registration.phoneNumber})
        detected_location == "Bharatpur"
        existing_reg == Put(Put(Update(alerts[i], registration),
                                "location", detected_location),
                            "updatedAt", Stamp)
        new_reg == Put(Put(Put(Put(registration,
                                   "id", Len(alerts) + 1),
                               "location", detected_location),
                           "registeredAt", Stamp),
                       "isActive", TRUE)
    IN IF i # 0
       THEN /\ alerts' = [alerts EXCEPT ![i] = existing_reg]
            /\ resp' = Return("register_for_alerts",
                              [success |-> TRUE,
                               message |-> "Alert registration successful for Bharatpur",
                               registration |-> existing_reg])
       ELSE /\ alerts' = Append(alerts, new_reg)
            /\ resp' = Return("register_for_alerts",
                              [success |-> TRUE,
                               message |-> "Alert registration successful for Bharatpur",
                               registration |-> new_reg])

(***************************************************************************)
(* src/main.py: the marketplace.                                           *)
(***************************************************************************)
\* product: the request body, name, price, description, type, phone
create_product(product, seller_id, seller_name) ==
    LET new_product == [id |-> Len(products) + 1,
                        seller_id |-> seller_id,
                        seller_name |-> seller_name,
                        name |-> product.name,
                        price |-> product.price,
                        description |-> product.description,
                        type |-> product.type,
                        phone |-> product.phone,
                        views |-> 0]
    IN /\ products' = Append(products, new_product)
       /\ resp' = Return("create_product", new_product)

delete_product(product_id) ==
    /\ products' = SelectSeq(products, LAMBDA p : p["id"] # product_id)
    /\ resp' = Return("delete_product", [message |-> "Product removed successfully"])

increment_view(product_id) ==
    LET i == FirstIndex({k \in DOMAIN products : products[k]["id"] = product_id})
        product == Put(products[i], "views", Get(products[i], "views", 0) + 1)
    IN IF i = 0
       THEN /\ resp' = HTTPException("increment_view", 404, "Product not found")
            /\ UNCHANGED products
       ELSE /\ products' = [products EXCEPT ![i] = product]
            /\ resp' = Return("increment_view", product)

(***************************************************************************)
(* src/main.py: the mail sender and the disease reports.  A Python call    *)
(* that returns or raises is a record: returned holds the value, raised    *)
(* says an exception left the call instead, and sent lists the sender      *)
(* calls made on the way.  relay is what smtp.gmail.com does with a        *)
(* message handed to it: "accepts" it, or "rejects" it (any smtplib or     *)
(* socket error).                                                          *)
(***************************************************************************)
\* one call of the sender, as mail keeps it
SenderCall(recipient, disease, crop, location, handed, returned, raised) ==
    [To |-> recipient,
     Subject |-> <<"Crop Disease Alert: ", disease, " detected in ", crop>>,
     Location |-> location,
     handed |-> handed,
     returned |-> returned,
     raised |-> raised]

\* a sender without its try/except: a rejection by the relay leaves the call
\* as an exception (mutant of send_disease_alert_email)
send_disease_alert_email_raising(recipient, disease, crop, location, relay) ==
    IF env.EMAIL_ADDRESS = "" \/ env.EMAIL_PASSWORD = ""
    THEN [returned |-> FALSE, raised |-> FALSE,
          sent |-> <<SenderCall(recipient, disease, crop, location, FALSE, FALSE, FALSE)>>]
    ELSE IF relay = "accepts"
         THEN [returned |-> TRUE, raised |-> FALSE,
               sent |-> <<SenderCall(recipient, disease, crop, location, TRUE, TRUE, FALSE)>>]
         ELSE [returned |-> FALSE, raised |-> TRUE,
               sent |-> <<SenderCall(recipient, disease, crop, location, TRUE, FALSE, TRUE)>>]

send_disease_alert_email(recipient, disease, crop, location, relay) ==
    IF env.EMAIL_ADDRESS = "" \/ env.EMAIL_PASSWORD = ""
    THEN [returned |-> FALSE, raised |-> FALSE,
          sent |-> <<SenderCall(recipient, disease, crop, location, FALSE, FALSE, FALSE)>>]
    ELSE IF relay = "accepts"
         THEN [returned |-> TRUE, raised |-> FALSE,
               sent |-> <<SenderCall(recipient, disease, crop, location, TRUE, TRUE, FALSE)>>]
         \* except Exception: return False
         ELSE [returned |-> FALSE, raised |-> FALSE,
               sent |-> <<SenderCall(recipient, disease, crop, location, TRUE, FALSE, FALSE)>>]

alert_nearby_farmers(location, disease, crop, relay) ==
    LET success == send_disease_alert_email(env.COMMUNITY_EMAIL, disease, crop,
                                            location, relay)
    IN IF env.COMMUNITY_EMAIL # ""
       THEN IF success.raised
            \* except Exception: return 0
            THEN [returned |-> 0, raised |-> FALSE, sent |-> success.sent]
            ELSE [returned |-> IF success.returned THEN 1 ELSE 0,
                  raised |-> FALSE,
                  sent |-> success.sent]
       ELSE [returned |-> 0, raised |-> FALSE, sent |-> <<>>]

\* "2024-12-14T00:00:00Z", the stamp report_disease writes: time stamps are
\* kept as numbers, which order as the strings do
ReportedAt == 20241214

\* the coroutine of a request that has reached an await
Awaiting(op, locals) ==
    [op |-> op, locals |-> locals]

\* a report_disease that alerts the farmers first and writes the report
\* afterwards (mutant of report_disease)
report_disease_alerting_first(report) ==
    /\ threads' = <<Awaiting("report_disease", [report |-> report, new_report |-> None])>>
    /\ mail' = <<>>
    /\ UNCHANGED <<reports, resp>>

\* report_disease down to its await: the report is written; report is the
\* request body, diseaseName, cropType, severity, description, location
report_disease(report) ==
    LET detected_location == Bharatpur
        new_report == Put(Put(Put(Put(report,
                                      "id", Len(reports) + 1),
                                  "location", detected_location),
                              "reportedAt", ReportedAt),
                          "status", "pending_verification")
    IN /\ reports' = Append(reports, new_report)
       /\ threads' = <<Awaiting("report_disease",
                                [report |-> report, new_report |-> new_report])>>
       /\ mail' = <<>>
       /\ UNCHANGED resp

\* report_disease from its await on: the farmers are alerted, the response
\* is returned
report_disease_resumed(relay) ==
    LET report == threads[1].locals.report
        new_report == threads[1].locals.new_report
        farmers_notified == alert_nearby_farmers(Bharatpur, report.diseaseName,
                                                 report.cropType, relay)
    IN /\ mail' = farmers_notified.sent
       /\ threads' = <<>>
       /\ resp' = IF farmers_notified.raised
                  THEN HTTPException("report_disease", 500, "Report submission error")
                  ELSE Return("report_disease",
                              [success |-> TRUE,
                               message |-> "Disease report submitted for Bharatpur",
                               report |-> new_report,
                               notified_farmers |-> farmers_notified.returned])
       /\ UNCHANGED reports

\* alert: the request body, email, disease, crop, location.  The
\* HTTPException raised in the try block is caught by its own except
\* Exception and raised again, as a 500 still.
send_alert(alert, relay) ==
    LET success == send_disease_alert_email(alert.email, alert.disease, alert.crop,
                                            alert.location, relay)
    IN /\ mail' = success.sent
       /\ resp' = IF success.raised
                  THEN HTTPException("send_alert", 500, "Alert error")
                  ELSE IF success.returned
                       THEN Return("send_alert",
                                   [success |-> TRUE,
                                    message |-> "Alert sent",
                                    details |-> alert])
                       ELSE HTTPException("send_alert", 500,
                                          "Alert error: Email delivery failed")
       /\ UNCHANGED <<reports, threads>>

send_community_alert(relay) ==
    LET demo_data == [disease |-> "Late Blight", crop |-> "Tomato",
                      location |-> "Bharatpur"]
        notifications == alert_nearby_farmers(demo_data["location"],
                                              demo_data["disease"],
                                              demo_data["crop"], relay)
    IN /\ mail' = notifications.sent
       /\ resp' = IF notifications.raised
                  THEN HTTPException("send_community_alert", 500, "Community alert error")
                  ELSE Return("send_community_alert",
                              [success |-> TRUE,
                               message |-> "Community alert broadcast complete",
                               notifications_sent |-> notifications.returned])
       /\ UNCHANGED <<reports, threads>>

\* sub in s, of Python strings
Contains(sub, s) ==
    \E k \in 0..(Len(s) - Len(sub)) : SubSeq(s, k + 1, k + Len(sub)) = sub

\* the position sorted(list, key=..., reverse=True) gives the element at i:
\* after every element with a greater key and, the sort being stable, after
\* the earlier elements with the same key
RankDescending(list, key, i) ==
    Cardinality({j \in DOMAIN list :
        \/ list[j][key] > list[i][key]
        \/ list[j][key] = list[i][key] /\ j < i}) + 1

SortedDescending(list, key) ==
    [k \in DOMAIN list |->
        list[CHOOSE i \in DOMAIN list : RankDescending(list, key, i) = k]]

\* list[:n]
Slice(list, n) ==
    SubSeq(list, 1, IF Len(list) < n THEN Len(list) ELSE n)

\* [:10]
RECENT == 10

\* what get_recent_alerts answers with for the reports on file; location is
\* None (or "", which counts as none) or the filter
recent_alerts(stored, location) ==
    LET filtered == IF location # <<>>
                    THEN SelectSeq(stored, LAMBDA r :
                             Contains(Lower(location), Lower(r["location"])))
                    ELSE stored
    IN Slice(SortedDescending(filtered, "reportedAt"), RECENT)

get_recent_alerts(location) ==
    /\ resp' = Return("get_recent_alerts",
                      [success |-> TRUE, alerts |-> recent_alerts(reports, location)])
    /\ UNCHANGED <<reports, threads, mail>>

(***************************************************************************)
(* src/main.py: a request on users.json, step by step.  The handlers are   *)
(* plain "def" functions, which the server runs on worker threads: between *)
(* a handler's read of the file and its write of the file, other requests  *)
(* run.  No lock is held.                                                  *)
(***************************************************************************)
\* read_json_file(USERS_FILE): the whole collection
read_json_file ==
    users

\* write_json_file(USERS_FILE, data): the whole collection
write_json_file(data) ==
    users' = data

\* a request that is through its read: its arguments and its local "users"
Running(op, user_id, amount, local) ==
    [op |-> op, user_id |-> user_id, amount |-> amount, users |-> local]

\* a list without its t-th element
Without(list, t) ==
    [k \in 1..(Len(list) - 1) |-> IF k < t THEN list[k] ELSE list[k + 1]]

\* add_credits, as far as "users = read_json_file(USERS_FILE)"
add_credits_read(user_id, amount) ==
    /\ threads' = Append(threads,
           Running("add_credits", user_id, amount, read_json_file))
    /\ UNCHANGED <<users, resp>>

\* an add_credits that adds to what the file holds as it writes
\* (mutant of add_credits_write)
add_credits_write_rereading(t) ==
    LET user_id == threads[t].user_id
        amount == threads[t].amount
        i == MatchId(users, user_id)
        current_credits == Get(users[i], "credits", 0)
        user == Put(users[i], "credits", current_credits + amount)
    IN /\ threads[t].op = "add_credits"
       /\ threads' = Without(threads, t)
       /\ IF i = 0
          THEN /\ resp' = HTTPException("add_credits", 404, "User not found")
               /\ UNCHANGED users
          ELSE /\ write_json_file([users EXCEPT ![i] = user])
               /\ resp' = Return("add_credits", user)

\* add_credits, from the loop on: the thread t works on its local "users"
add_credits_write(t) ==
    LET user_id == threads[t].user_id
        amount == threads[t].amount
        local == threads[t].users
        i == MatchId(local, user_id)
        current_credits == Get(local[i], "credits", 0)
        user == Put(local[i], "credits", current_credits + amount)
    IN /\ threads[t].op = "add_credits"
       /\ threads' = Without(threads, t)
       /\ IF i = 0
          THEN /\ resp' = HTTPException("add_credits", 404, "User not found")
               /\ UNCHANGED users
          ELSE /\ write_json_file([local EXCEPT ![i] = user])
               /\ resp' = Return("add_credits", user)

\* use_token, as far as "users = read_json_file(USERS_FILE)"
use_token_read(user_id) ==
    /\ threads' = Append(threads,
           Running("use_token", user_id, 0, read_json_file))
    /\ UNCHANGED <<users, resp>>

\* use_token, from the loop on: the thread t works on its local "users"
use_token_write(t) ==
    LET user_id == threads[t].user_id
        local == threads[t].users
        i == MatchId(local, user_id)
        r == check_and_reset_monthly_tokens(local[i])
        current_tokens == Get(r.user, "tokens", 0)
        user == Put(r.user, "tokens", current_tokens - 1)
    IN /\ threads[t].op = "use_token"
       /\ threads' = Without(threads, t)
       /\ IF i = 0
          THEN /\ resp' = HTTPException("use", 404, "User not found")
               /\ UNCHANGED users
          ELSE IF current_tokens < 1
          THEN /\ resp' = HTTPException("use", 402, "Insufficient tokens")
               /\ UNCHANGED users
          ELSE /\ write_json_file([local EXCEPT ![i] = user])
               /\ resp' = Return("use",
                      [success |-> TRUE, remainingTokens |-> user["tokens"]])

(***************************************************************************)
(* src/main.py: the classifier.  plant_model is None or the handle of a    *)
(* loaded model; a handle is written <<n>>, n telling one loaded object    *)
(* from another.                                                           *)
(***************************************************************************)
\* what a call finds at MODEL_PATH: no file, a file load_model raises on, a
\* file load_model loads
Artifacts == {"missing", "broken", "sound"}

\* what inference does with the image of a request
Inferences == {"healthy", "diseased", "raises"}

\* an initialize_plant_model that loads whatever it holds (mutant of
\* initialize_plant_model)
initialize_plant_model_anew(artifact, n) ==
    IF artifact = "missing"
    THEN [returned |-> None, plant_model |-> plant_model,
          exists |-> TRUE, load_model |-> FALSE]
    ELSE IF artifact = "sound"
    THEN [returned |-> <<n>>, plant_model |-> <<n>>,
          exists |-> TRUE, load_model |-> TRUE]
    ELSE [returned |-> None, plant_model |-> plant_model,
          exists |-> TRUE, load_model |-> TRUE]

\* the n-th call of initialize_plant_model: what it returns, the global it
\* leaves, and whether it called os.path.exists and load_model
initialize_plant_model(artifact, n) ==
    IF plant_model # None
    THEN [returned |-> plant_model, plant_model |-> plant_model,
          exists |-> FALSE, load_model |-> FALSE]
    ELSE IF artifact = "missing"
    THEN [returned |-> None, plant_model |-> plant_model,
          exists |-> TRUE, load_model |-> FALSE]
    ELSE IF artifact = "sound"
    THEN [returned |-> <<n>>, plant_model |-> <<n>>,
          exists |-> TRUE, load_model |-> TRUE]
    ELSE [returned |-> None, plant_model |-> plant_model,
          exists |-> TRUE, load_model |-> TRUE]

\* POST /api/predict
predict_plant_disease(artifact, inference, n) ==
    LET model == initialize_plant_model(artifact, n).returned
    IN /\ plant_model' = initialize_plant_model(artifact, n).plant_model
       /\ IF model = None
          THEN resp' = HTTPException("predict", 500,
                                     "Disease detection model unavailable")
          ELSE IF inference = "raises"
          THEN resp' = HTTPException("predict", 500, "Prediction failed")
          ELSE resp' = Return("predict", [prediction |-> inference])

(***************************************************************************)
(* src/database.py: the table layer.  A function runs its statements on    *)
(* one connection and commits when its "with get_db()" block ends; the     *)
(* get_..._by_id it returns is called inside that block and reads through  *)
(* a connection of its own, so it sees the tables as they were before the  *)
(* function's own statements.  The columns created_at are left out:        *)
(* nothing reads them.  Foreign keys are declared and not enforced (no     *)
(* PRAGMA foreign_keys).  SELECT ... WHERE is SelectSeq: the rows kept,    *)
(* in rowid order.                                                         *)
(***************************************************************************)
\* what a function of the layer returns
Returned(op, value) ==
    [op |-> op, status |-> 0, body |-> value]

\* sqlite3.IntegrityError leaves the function; nothing is committed
Raised(op, error) ==
    [op |-> op, status |-> -1, body |-> [detail |-> error]]

\* an id taken from the number of rows in the table (mutant of NextRowid)
NextRowid_counting_rows(tables, name) ==
    Len(tables[name]) + 1

\* the id an INTEGER PRIMARY KEY AUTOINCREMENT column gives the next row
NextRowid(tables, name) ==
    tables.sqlite_sequence[name] + 1

\* INSERT INTO name: the row is added and sqlite_sequence remembers its id
Insert(tables, name, row) ==
    [tables EXCEPT ![name] = Append(@, row),
                   !.sqlite_sequence[name] = row.id]

\* CURRENT_TIMESTAMP
CURRENT_TIMESTAMP == "CURRENT_TIMESTAMP"

get_user_friends(tables, user_id) ==
    LET rows == SelectSeq(tables.user_friends, LAMBDA row : row.user_id = user_id)
    IN [k \in DOMAIN rows |-> rows[k].friend_name]

get_user_by_id(tables, user_id) ==
    LET rows == SelectSeq(tables.users, LAMBDA row : row.id = user_id)
    IN IF rows # <<>>
       THEN Put(rows[1], "friends", get_user_friends(tables, user_id))
       ELSE None

\* UNIQUE(name, type): the columns compare byte by byte
UniqueNameType(table, name, type) ==
    \A k \in DOMAIN table : ~(table[k].name = name /\ table[k].type = type)

create_user(name, user_type) ==
    LET lastrowid == NextRowid(db, "users")
        row == [id |-> lastrowid,
                name |-> name,
                type |-> user_type,
                credits |-> 0,
                tokens |-> 5,
                last_token_reset |-> month]
    IN IF ~UniqueNameType(db.users, name, user_type)
       THEN /\ resp' = Raised("create_user", "IntegrityError")
            /\ UNCHANGED db
       ELSE /\ db' = Insert(db, "users", row)
            /\ resp' = Returned("create_user", get_user_by_id(db, lastrowid))

get_user_by_name_type(name, user_type) ==
    LET rows == SelectSeq(db.users, LAMBDA row :
                    Lower(row.name) = Lower(name) /\ row.type = user_type)
    IN /\ resp' = Returned("get_user_by_name_type",
                     IF rows # <<>>
                     THEN Put(rows[1], "friends", get_user_friends(db, rows[1].id))
                     ELSE None)
       /\ UNCHANGED db

\* UNIQUE(user_id, friend_name)
UniqueFriend(table, user_id, friend_name) ==
    \A k \in DOMAIN table :
        ~(table[k].user_id = user_id /\ table[k].friend_name = friend_name)

\* INSERT OR IGNORE INTO user_friends
add_user_friend(user_id, friend_name) ==
    LET row == [id |-> NextRowid(db, "user_friends"),
                user_id |-> user_id,
                friend_name |-> friend_name]
    IN /\ db' = IF UniqueFriend(db.user_friends, user_id, friend_name)
                THEN Insert(db, "user_friends", row)
                ELSE db
       /\ resp' = Returned("add_user_friend", get_user_by_id(db, user_id))

\* credits, tokens, last_token_reset: None, or <<v>> carrying v.  Without any
\* of them no UPDATE is run.
db_update_user(user_id, credits, tokens, last_token_reset) ==
    LET set(row) ==
            LET r1 == IF credits # None THEN Put(row, "credits", credits[1]) ELSE row
                r2 == IF tokens # None THEN Put(r1, "tokens", tokens[1]) ELSE r1
            IN IF last_token_reset # None
               THEN Put(r2, "last_token_reset", last_token_reset[1]) ELSE r2
        updated == [k \in DOMAIN db.users |->
                       IF db.users[k].id = user_id THEN set(db.users[k])
                       ELSE db.users[k]]
    IN /\ db' = [db EXCEPT !.users = updated]
       /\ resp' = Returned("update_user", get_user_by_id(db, user_id))

\* CURRENT_TIMESTAMP as a number: later than the stamp src/main.py writes,
\* and the same for every row inserted within one month of the model's clock
Now ==
    ReportedAt + month

get_disease_report_by_id(tables, report_id) ==
    LET rows == SelectSeq(tables.disease_reports, LAMBDA row : row.id = report_id)
    IN IF rows # <<>> THEN rows[1] ELSE None

create_disease_report(disease_name, crop_type, severity, description, location) ==
    LET row == [id |-> NextRowid(db, "disease_reports"),
                disease_name |-> disease_name,
                location |-> location,
                crop_type |-> crop_type,
                severity |-> severity,
                description |-> description,
                reporter_phone |-> None,
                reported_at |-> Now,
                status |-> "pending_verification"]
    IN /\ db' = Insert(db, "disease_reports", row)
       /\ resp' = Returned("create_disease_report", get_disease_report_by_id(db, row.id))

\* string LIKE pattern, of SQLite: % is any run of characters, _ any one
\* character, and ASCII letters match whatever their case
RECURSIVE Like(_, _)
Like(s, pattern) ==
    IF pattern = <<>> THEN s = <<>>
    ELSE IF pattern[1] = 37
         THEN Like(s, Tail(pattern)) \/ (s # <<>> /\ Like(Tail(s), pattern))
         ELSE /\ s # <<>>
              /\ pattern[1] = 95 \/ LowerChar(pattern[1]) = LowerChar(s[1])
              /\ Like(Tail(s), Tail(pattern))

\* what get_recent_disease_reports returns for the tables; rows with equal
\* reported_at come out in rowid order, as SQLite's sorter leaves them
recent_disease_reports(tables, location, limit) ==
    LET rows == IF location # <<>>
                THEN SelectSeq(tables.disease_reports, LAMBDA row :
                         Like(Lower(row.location), Lower(<<37>> \o location \o <<37>>)))
                ELSE tables.disease_reports
    IN Slice(SortedDescending(rows, "reported_at"), limit)

get_recent_disease_reports(location, limit) ==
    /\ resp' = Returned("get_recent_disease_reports",
                        recent_disease_reports(db, location, limit))
    /\ UNCHANGED db

(***************************************************************************)
(* src/migrate_to_db.py: the reports on file are copied into the table,    *)
(* each under its own id; INSERT OR IGNORE skips an id the table has.      *)
(***************************************************************************)
\* the table with the row put in at the place its rowid gives it
InsertWithId(tables, name, row) ==
    [tables EXCEPT
        ![name] = SelectSeq(@, LAMBDA r : r.id < row.id) \o <<row>>
                  \o SelectSeq(@, LAMBDA r : r.id > row.id),
        !.sqlite_sequence[name] = IF row.id > @ THEN row.id ELSE @]

\* the tables after the first n reports on file went through the loop
RECURSIVE MigratedReports(_, _, _)
MigratedReports(tables, stored, n) ==
    IF n = 0 THEN tables
    ELSE LET before == MigratedReports(tables, stored, n - 1)
             report == stored[n]
             row == [id |-> report["id"],
                     disease_name |-> report["diseaseName"],
                     location |-> Get(report, "location", Bharatpur),
                     crop_type |-> report["cropType"],
                     severity |-> report["severity"],
                     description |-> Get(report, "description", None),
                     reporter_phone |-> Get(report, "reporterPhone", None),
                     reported_at |-> Get(report, "reportedAt", None),
                     status |-> Get(report, "status", None)]
         IN IF \E k \in DOMAIN before.disease_reports :
                   before.disease_reports[k].id = row.id
            THEN before
            ELSE InsertWithId(before, "disease_reports", row)

migrate_disease_reports ==
    /\ db' = MigratedReports(db, reports, Len(reports))
    /\ UNCHANGED reports

get_alert_registration_by_id(tables, reg_id) ==
    LET rows == SelectSeq(tables.alert_registrations, LAMBDA row : row.id = reg_id)
    IN IF rows # <<>> THEN rows[1] ELSE None

create_or_update_alert_registration(farmer_name, phone_number, crop_types, alert_radius) ==
    LET location == "Bharatpur"
        existing == SelectSeq(db.alert_registrations,
                           LAMBDA row : row.phone_number = phone_number)
        updated == [k \in DOMAIN db.alert_registrations |->
                       IF db.alert_registrations[k].phone_number = phone_number
                       THEN [db.alert_registrations[k] EXCEPT
                                !.farmer_name = farmer_name,
                                !.crop_types = crop_types,
                                !.alert_radius = alert_radius,
                                !.location = location,
                                !.updated_at = CURRENT_TIMESTAMP]
                       ELSE db.alert_registrations[k]]
        row == [id |-> NextRowid(db, "alert_registrations"),
                farmer_name |-> farmer_name,
                phone_number |-> phone_number,
                location |-> location,
                crop_types |-> crop_types,
                alert_radius |-> alert_radius,
                registered_at |-> CURRENT_TIMESTAMP,
                updated_at |-> None,
                is_active |-> 1]
    IN IF existing # <<>>
       THEN /\ db' = [db EXCEPT !.alert_registrations = updated]
            /\ resp' = Returned("create_or_update_alert_registration",
                                get_alert_registration_by_id(db, existing[1].id))
       ELSE /\ db' = Insert(db, "alert_registrations", row)
            /\ resp' = Returned("create_or_update_alert_registration",
                                get_alert_registration_by_id(db, row.id))

get_product_by_id(tables, product_id) ==
    LET rows == SelectSeq(tables.products, LAMBDA row : row.id = product_id)
    IN IF rows # <<>> THEN rows[1] ELSE None

db_create_product(seller_id, seller_name, name, price, description, product_type, phone) ==
    LET row == [id |-> NextRowid(db, "products"),
                seller_id |-> seller_id,
                seller_name |-> seller_name,
                name |-> name,
                price |-> price,
                description |-> description,
                type |-> product_type,
                phone |-> phone,
                views |-> 0]
    IN /\ db' = Insert(db, "products", row)
       /\ resp' = Returned("create_product", get_product_by_id(db, row.id))

db_delete_product(product_id) ==
    LET kept == SelectSeq(db.products, LAMBDA row : row.id # product_id)
    IN /\ db' = [db EXCEPT !.products = kept]
       /\ resp' = Returned("delete_product", Len(db.products) - Len(kept) > 0)

increment_product_views(product_id) ==
    LET table == db.products
        updated == [k \in DOMAIN table |->
                       IF table[k].id = product_id
                       THEN [table[k] EXCEPT !.views = table[k].views + 1]
                       ELSE table[k]]
    IN /\ db' = [db EXCEPT !.products = updated]
       /\ resp' = Returned("increment_product_views", get_product_by_id(db, product_id))

(***************************************************************************)
(* The state after construction: no data file, empty tables.               *)
(***************************************************************************)
Empty ==
    /\ month = 1
    /\ users = <<>>
    /\ alerts = <<>>
    /\ products = <<>>
    /\ db = [users |-> <<>>,
             user_friends |-> <<>>,
             alert_registrations |-> <<>>,
             disease_reports |-> <<>>,
             products |-> <<>>,
             sqlite_sequence |-> [users |-> 0,
                                  user_friends |-> 0,
                                  alert_registrations |-> 0,
                                  disease_reports |-> 0,
                                  products |-> 0]]
    /\ resp = Return("start", [detail |-> ""])
    /\ call = [op |-> "start", args |-> <<>>, before |-> None]
    /\ fresh = <<>>
    /\ credited = <<>>
    /\ reports = <<>>
    /\ mail = <<>>
    /\ plant_model = None
    /\ threads = <<>>
    /\ hist = <<>>

\* nothing is configured in the environment: no mail goes out
NoMail ==
    [EMAIL_ADDRESS |-> "", EMAIL_PASSWORD |-> "", COMMUNITY_EMAIL |-> ""]

Start ==
    /\ Empty
    /\ env = NoMail

\* what the handlers of the ledger, the alerts and the marketplace never touch
aside == <<reports, env, mail, plant_model, threads>>

\* a request served by a handler of one file-backed source, on users.json
OnStore(source, Handler) ==
    /\ variant = source
    /\ Handler
    /\ UNCHANGED <<variant, month, alerts, products, db, aside>>

OnFile(source, Handler) ==
    /\ OnStore(source, Handler)
    /\ UNCHANGED hist

\* a request served by src/main.py on alerts.json
OnAlertsFile(Handler) ==
    /\ variant = "main"
    /\ Handler
    /\ UNCHANGED <<variant, month, users, products, db, aside, hist>>

\* a request served by src/main.py on products.json
OnProductsFile(Handler) ==
    /\ variant = "main"
    /\ Handler
    /\ UNCHANGED <<variant, month, users, alerts, db, aside, hist>>

\* a call of the table layer
OnTable(Function) ==
    /\ variant = "database"
    /\ Function
    /\ UNCHANGED <<variant, month, users, alerts, products, aside, hist>>

(***************************************************************************)
(* The history variables, kept beside the handlers.                        *)
(***************************************************************************)
\* the call being made, and what is stored for it as it starts
Called(op, args, before) ==
    call' = [op |-> op, args |-> args, before |-> before]

\* the stored user with the id, or None
UserById(us, id) ==
    IF \E k \in DOMAIN us : us[k]["id"] = id
    THEN us[CHOOSE k \in DOMAIN us : us[k]["id"] = id]
    ELSE None

\* the stored user a login addresses, or None
UserByLogin(us, name, type) ==
    IF MatchNameType(us, name, type) = 0 THEN None
    ELSE us[MatchNameType(us, name, type)]

Taint(id) ==
    [i \in DOMAIN fresh |-> IF i = id THEN -1 ELSE fresh[i]]

Count(id) ==
    [i \in DOMAIN fresh |-> IF i = id /\ fresh[i] >= 0 /\ fresh[i] < MaxUses
                             THEN fresh[i] + 1 ELSE fresh[i]]

\* the calendar moves on to the next month
Tick ==
    /\ NextMonth
    /\ Called("tick", <<>>, None)
    /\ fresh' = [i \in DOMAIN fresh |-> -1]
    /\ UNCHANGED <<variant, alerts, products, db, credited, aside, hist>>

(***************************************************************************)
(* Spec: the token ledger of src/main.py.                                  *)
(***************************************************************************)
Init ==
    /\ variant = "main"
    /\ Start

Register ==
    \E name \in LedgerNames, type \in LedgerTypes :
        /\ OnFile("main", register_user(name, type))
        /\ Called("register", [name |-> name, type |-> type], users)
        /\ fresh' = IF resp'.status = 200 THEN Append(fresh, 0) ELSE fresh
        /\ UNCHANGED credited

Login ==
    \E name \in LedgerLogins, type \in LedgerTypes :
        /\ OnFile("main", login_user(name, type))
        /\ Called("login", [name |-> name, type |-> type],
                  UserByLogin(users, name, type))
        /\ UNCHANGED <<fresh, credited>>

GetTokens ==
    \E id \in Ids :
        /\ OnFile("main", get_user_tokens(id))
        /\ Called("tokens", [id |-> id], UserById(users, id))
        /\ UNCHANGED <<fresh, credited>>

Purchase ==
    \E id \in Ids, quantity \in Quantities :
        /\ IF UserById(users, id) = None THEN TRUE
           ELSE UserById(users, id)["tokens"] + quantity <= MaxTokens
        /\ OnFile("main", purchase_tokens(id, quantity))
        /\ Called("purchase", [id |-> id, quantity |-> quantity], UserById(users, id))
        /\ fresh' = IF resp'.status = 200 THEN Taint(id) ELSE fresh
        /\ UNCHANGED credited

UseToken ==
    \E id \in Ids :
        /\ OnFile("main", use_token(id))
        /\ Called("use", [id |-> id], UserById(users, id))
        /\ fresh' = Count(id)
        /\ UNCHANGED credited

PutTokensOnly ==
    \E id \in Ids, tokens \in PutTokens :
        /\ OnFile("main", update_user(id, None, None, tokens))
        /\ Called("update", [id |-> id, tokens |-> tokens], UserById(users, id))
        /\ fresh' = IF resp'.status = 200 /\ tokens # None THEN Taint(id) ELSE fresh
        /\ UNCHANGED credited

Next ==
    \/ Register
    \/ Login
    \/ GetTokens
    \/ Purchase
    \/ UseToken
    \/ PutTokensOnly
    \/ Tick

Spec == Init /\ [][Next]_vars

(***************************************************************************)
(* SpecRegistry: registration and login, on each of the three sources.     *)
(***************************************************************************)
InitRegistry ==
    /\ variant \in {"main", "backend", "database"}
    /\ Start

RegistryRegister ==
    \E name \in RegNames, type \in Types :
        /\ OnFile("main", register_user(name, type))
        /\ Called("register", [name |-> name, type |-> type], users)
        /\ UNCHANGED <<fresh, credited>>

RegistryBackendRegister ==
    \E name \in RegNames, type \in Types :
        /\ OnFile("backend", backend_register_user(name, type))
        /\ Called("register", [name |-> name, type |-> type], users)
        /\ UNCHANGED <<fresh, credited>>

RegistryLogin ==
    \E name \in Names, type \in LoginTypes :
        /\ OnFile("main", login_user(name, type))
        /\ Called("login", [name |-> name, type |-> type],
                  UserByLogin(users, name, type))
        /\ UNCHANGED <<fresh, credited>>

RegistryCreateUser ==
    \E name \in RegNames, type \in Types :
        /\ OnTable(create_user(name, type))
        /\ Called("create_user", [name |-> name, type |-> type], db.users)
        /\ UNCHANGED <<fresh, credited>>

RegistryLookup ==
    \E name \in Names, type \in LoginTypes :
        /\ OnTable(get_user_by_name_type(name, type))
        /\ Called("get_user_by_name_type", [name |-> name, type |-> type], None)
        /\ UNCHANGED <<fresh, credited>>

NextRegistry ==
    \/ RegistryRegister
    \/ RegistryBackendRegister
    \/ RegistryLogin
    \/ RegistryCreateUser
    \/ RegistryLookup
    \/ Tick

SpecRegistry == InitRegistry /\ [][NextRegistry]_vars

(***************************************************************************)
(* SpecCredits: the credit balance, on the two file-backed sources.        *)
(***************************************************************************)
InitCredits ==
    /\ variant \in {"main", "backend"}
    /\ Start

\* the balance the user with the id has, while the balance is followed
WithinCredits(id, amount) ==
    IF UserById(users, id) = None THEN TRUE
    ELSE /\ UserById(users, id)["credits"] + amount <= MaxCredits
         /\ UserById(users, id)["credits"] + amount >= -MaxCredits

\* the history of a user's balance after a call that went through
Credit(id, balance) ==
    [i \in DOMAIN credited |-> IF i = id THEN balance ELSE credited[i]]

CreditsRegister ==
    \E name \in LedgerNames, type \in LedgerTypes :
        /\ OnFile("main", register_user(name, type))
        /\ Called("register", [name |-> name, type |-> type], users)
        /\ credited' = IF resp'.status = 200 THEN Append(credited, 0) ELSE credited
        /\ UNCHANGED fresh

CreditsBackendRegister ==
    \E name \in LedgerNames, type \in LedgerTypes :
        /\ OnFile("backend", backend_register_user(name, type))
        /\ Called("register", [name |-> name, type |-> type], users)
        /\ credited' = IF resp'.status = 200 THEN Append(credited, 0) ELSE credited
        /\ UNCHANGED fresh

CreditsAdd ==
    \E id \in Ids, amount \in Amounts :
        /\ WithinCredits(id, amount)
        /\ OnFile("main", add_credits(id, amount))
        /\ Called("add_credits", [id |-> id, amount |-> amount], UserById(users, id))
        /\ credited' = IF resp'.status = 200
                       THEN Credit(id, credited[id] + amount) ELSE credited
        /\ UNCHANGED fresh

CreditsBackendAdd ==
    \E id \in Ids, amount \in Amounts :
        /\ WithinCredits(id, amount)
        /\ OnFile("backend", backend_add_credits(id, amount))
        /\ Called("add_credits", [id |-> id, amount |-> amount], UserById(users, id))
        /\ credited' = IF resp'.status = 200
                       THEN Credit(id, credited[id] + amount) ELSE credited
        /\ UNCHANGED fresh

\* a PUT that carries credits gives the user a new balance to start from
CreditsPut ==
    \E id \in Ids, credits \in PutCredits :
        /\ OnFile("main", update_user(id, credits, None, None))
        /\ Called("update", [id |-> id, credits |-> credits], UserById(users, id))
        /\ credited' = IF resp'.status = 200 THEN Credit(id, credits[1]) ELSE credited
        /\ UNCHANGED fresh

NextCredits ==
    \/ CreditsRegister
    \/ CreditsBackendRegister
    \/ CreditsAdd
    \/ CreditsBackendAdd
    \/ CreditsPut

SpecCredits == InitCredits /\ [][NextCredits]_vars

(***************************************************************************)
(* SpecFriends: the friends of a user, on src/main.py and on the tables.   *)
(***************************************************************************)
InitFriends ==
    /\ variant \in {"main", "database"}
    /\ Start

FriendsRegister ==
    \E name \in LedgerNames, type \in LedgerTypes :
        /\ OnFile("main", register_user(name, type))
        /\ Called("register", [name |-> name, type |-> type], users)
        /\ UNCHANGED <<fresh, credited>>

FriendsAdd ==
    \E id \in Ids, friend_name \in FriendNames :
        /\ OnFile("main", add_friend(id, friend_name))
        /\ Called("add_friend", [id |-> id, friend_name |-> friend_name],
                  UserById(users, id))
        /\ UNCHANGED <<fresh, credited>>

FriendsCreateUser ==
    \E name \in LedgerNames, type \in LedgerTypes :
        /\ OnTable(create_user(name, type))
        /\ Called("create_user", [name |-> name, type |-> type], db.users)
        /\ UNCHANGED <<fresh, credited>>

FriendsAddUserFriend ==
    \E id \in Ids, friend_name \in FriendNames :
        /\ OnTable(add_user_friend(id, friend_name))
        /\ Called("add_user_friend", [id |-> id, friend_name |-> friend_name],
                  get_user_by_id(db, id))
        /\ UNCHANGED <<fresh, credited>>

NextFriends ==
    \/ FriendsRegister
    \/ FriendsAdd
    \/ FriendsCreateUser
    \/ FriendsAddUserFriend

SpecFriends == InitFriends /\ [][NextFriends]_vars

(***************************************************************************)
(* SpecAlerts: the alert registrations, on src/main.py and on the tables.  *)
(***************************************************************************)
InitAlerts ==
    /\ variant \in {"main", "database"}
    /\ Start

AlertsRegister ==
    \E registration \in AlertBodies :
        /\ OnAlertsFile(register_for_alerts(registration))
        /\ Called("register_for_alerts", registration, alerts)
        /\ UNCHANGED <<fresh, credited>>

AlertsCreateOrUpdate ==
    \E registration \in AlertBodies :
        /\ OnTable(create_or_update_alert_registration(registration.farmerName,
                                                       registration.phoneNumber,
                                                       registration.cropTypes,
                                                       registration.alertRadius))
        /\ Called("create_or_update_alert_registration", registration,
                  db.alert_registrations)
        /\ UNCHANGED <<fresh, credited>>

NextAlerts ==
    \/ AlertsRegister
    \/ AlertsCreateOrUpdate

SpecAlerts == InitAlerts /\ [][NextAlerts]_vars

(***************************************************************************)
(* SpecProducts: the marketplace, on src/main.py and on the tables.        *)
(***************************************************************************)
InitProducts ==
    /\ variant \in {"main", "database"}
    /\ Start

\* the views of every stored product with the id are still followed
WithinViews(list, id) ==
    \A k \in DOMAIN list : list[k]["id"] = id => list[k]["views"] < MaxViews

ProductsCreate ==
    \E product \in ProductBodies :
        /\ Len(products) < MaxProducts
        /\ OnProductsFile(create_product(product, 1, ra))
        /\ Called("create_product", product, products)
        /\ UNCHANGED <<fresh, credited>>

ProductsDelete ==
    \E id \in ProductIds :
        /\ OnProductsFile(delete_product(id))
        /\ Called("delete_product", [id |-> id], products)
        /\ UNCHANGED <<fresh, credited>>

ProductsView ==
    \E id \in ProductIds :
        /\ WithinViews(products, id)
        /\ OnProductsFile(increment_view(id))
        /\ Called("increment_view", [id |-> id], products)
        /\ UNCHANGED <<fresh, credited>>

ProductsDbCreate ==
    \E product \in ProductBodies :
        /\ db.sqlite_sequence.products < MaxRowid
        /\ OnTable(db_create_product(1, ra, product.name, product.price,
                                     product.description, product.type, product.phone))
        /\ Called("db_create_product", product, db.products)
        /\ UNCHANGED <<fresh, credited>>

ProductsDbDelete ==
    \E id \in ProductIds :
        /\ OnTable(db_delete_product(id))
        /\ Called("db_delete_product", [id |-> id], db.products)
        /\ UNCHANGED <<fresh, credited>>

ProductsDbView ==
    \E id \in ProductIds :
        /\ WithinViews(db.products, id)
        /\ OnTable(increment_product_views(id))
        /\ Called("increment_product_views", [id |-> id], db.products)
        /\ UNCHANGED <<fresh, credited>>

NextProducts ==
    \/ ProductsCreate
    \/ ProductsDelete
    \/ ProductsView
    \/ ProductsDbCreate
    \/ ProductsDbDelete
    \/ ProductsDbView

SpecProducts == InitProducts /\ [][NextProducts]_vars

(***************************************************************************)
(* SpecReports: the disease reports and the mail sender of src/main.py,    *)
(* under every configuration of the environment.                           *)
(***************************************************************************)
InitReports ==
    /\ variant = "main"
    /\ Empty
    /\ env \in Environments

\* a request served by src/main.py on disease_reports.json or by its sender
OnReportsFile(Handler) ==
    /\ variant = "main"
    /\ Handler
    /\ UNCHANGED <<variant, month, users, alerts, products, db, env, plant_model,
                   fresh, credited, hist>>

ReportsSubmit ==
    \E report \in ReportBodies :
        /\ threads = <<>>
        /\ Len(reports) < MaxReports
        /\ OnReportsFile(report_disease(report))
        /\ Called("report_disease", report, reports)

ReportsSubmitResumed ==
    \E relay \in Relays :
        /\ threads # <<>>
        /\ threads[1].op = "report_disease"
        /\ OnReportsFile(report_disease_resumed(relay))
        /\ Called("report_disease_resumed", [relay |-> relay], reports)

ReportsSendAlert ==
    \E alert \in EmailAlerts, relay \in Relays :
        /\ threads = <<>>
        /\ OnReportsFile(send_alert(alert, relay))
        /\ Called("send_alert", [alert |-> alert, relay |-> relay], reports)

ReportsSendCommunityAlert ==
    \E relay \in Relays :
        /\ threads = <<>>
        /\ OnReportsFile(send_community_alert(relay))
        /\ Called("send_community_alert", [relay |-> relay], reports)

NextReports ==
    \/ ReportsSubmit
    \/ ReportsSubmitResumed
    \/ ReportsSendAlert
    \/ ReportsSendCommunityAlert

SpecReports == InitReports /\ [][NextReports]_vars

(***************************************************************************)
(* SpecUpdate: the PUT of a user, on src/main.py and on the tables.        *)
(***************************************************************************)
InitUpdate ==
    /\ variant \in {"main", "database"}
    /\ Start

UpdateRegister ==
    \E name \in LedgerNames, type \in LedgerTypes :
        /\ OnFile("main", register_user(name, type))
        /\ Called("register", [name |-> name, type |-> type], users)
        /\ UNCHANGED <<fresh, credited>>

UpdatePut ==
    \E id \in Ids, update \in UserUpdates :
        /\ OnFile("main", update_user(id, update.credits, update.friends, update.tokens))
        /\ Called("update_user", [id |-> id, update |-> update], users)
        /\ UNCHANGED <<fresh, credited>>

UpdateCreateUser ==
    \E name \in LedgerNames, type \in LedgerTypes :
        /\ OnTable(create_user(name, type))
        /\ Called("create_user", [name |-> name, type |-> type], db.users)
        /\ UNCHANGED <<fresh, credited>>

UpdateTable ==
    \E id \in Ids, update \in TableUpdates :
        /\ OnTable(db_update_user(id, update.credits, update.tokens,
                                  update.last_token_reset))
        /\ Called("db_update_user", [id |-> id, update |-> update], db)
        /\ UNCHANGED <<fresh, credited>>

NextUpdate ==
    \/ UpdateRegister
    \/ UpdatePut
    \/ UpdateCreateUser
    \/ UpdateTable

SpecUpdate == InitUpdate /\ [][NextUpdate]_vars

(***************************************************************************)
(* SpecRecent: the listings of recent reports.  With src/main.py the       *)
(* reports are submitted to the file, copied into the table by             *)
(* src/migrate_to_db.py, and listed from the file; with src/database.py    *)
(* they are created in the table, under a moving clock, and listed from it.*)
(***************************************************************************)
InitRecent ==
    /\ variant \in {"main", "database"}
    /\ Start

RecentSubmit ==
    \E report \in RecentBodies :
        /\ threads = <<>>
        /\ Len(reports) < MaxRecent
        /\ OnReportsFile(report_disease(report))
        /\ Called("report_disease", report, reports)

RecentSubmitResumed ==
    \E relay \in Relays :
        /\ threads # <<>>
        /\ threads[1].op = "report_disease"
        /\ OnReportsFile(report_disease_resumed(relay))
        /\ Called("report_disease_resumed", [relay |-> relay], reports)

RecentMigrate ==
    /\ variant = "main"
    /\ migrate_disease_reports
    /\ resp' = Return("migrate_disease_reports", [migrated |-> Len(reports)])
    /\ Called("migrate_disease_reports", <<>>, reports)
    /\ UNCHANGED <<variant, month, users, alerts, products, env, mail, plant_model,
                   threads, fresh, credited, hist>>

RecentAlerts ==
    \E location \in Filters :
        /\ OnReportsFile(get_recent_alerts(location))
        /\ Called("get_recent_alerts", [location |-> location], reports)

RecentCreate ==
    \E location \in {Bharatpur, Pokhara} :
        /\ db.sqlite_sequence.disease_reports < MaxRowid
        /\ OnTable(create_disease_report("Rust", "Wheat", "low", None, location))
        /\ Called("create_disease_report", [location |-> location], db.disease_reports)
        /\ UNCHANGED <<fresh, credited>>

RecentReports ==
    \E location \in Filters, limit \in Limits :
        /\ OnTable(get_recent_disease_reports(location, limit))
        /\ Called("get_recent_disease_reports",
                  [location |-> location, limit |-> limit], db.disease_reports)
        /\ UNCHANGED <<fresh, credited>>

RecentTick ==
    /\ variant = "database"
    /\ Tick

NextRecent ==
    \/ RecentSubmit
    \/ RecentSubmitResumed
    \/ RecentMigrate
    \/ RecentAlerts
    \/ RecentCreate
    \/ RecentReports
    \/ RecentTick

SpecRecent == InitRecent /\ [][NextRecent]_vars

(***************************************************************************)
(* SpecRace: requests of src/main.py on users.json that overlap.           *)
(***************************************************************************)
InitRace ==
    /\ variant = "main"
    /\ Start

\* what a request on users.json leaves alone
OnUsersFile(Step) ==
    /\ variant = "main"
    /\ Step
    /\ UNCHANGED <<variant, month, alerts, products, db, reports, env, mail,
                   plant_model, fresh, credited>>

\* a request that is over: what it was, what it answered, the balances it had
\* read
Over(t) ==
    [op |-> threads[t].op, user_id |-> threads[t].user_id,
     amount |-> threads[t].amount, status |-> resp'.status,
     read |-> UserById(threads[t].users, threads[t].user_id)]

\* the users register before the requests that are followed start
RaceRegister ==
    \E name \in LedgerNames, type \in LedgerTypes :
        /\ threads = <<>>
        /\ hist = <<>>
        /\ OnUsersFile(register_user(name, type))
        /\ Called("register", [name |-> name, type |-> type], users)
        /\ UNCHANGED <<threads, hist>>

RaceAddRead ==
    \E id \in Ids, amount \in Amounts :
        /\ Len(threads) + Len(hist) < MaxRequests
        /\ OnUsersFile(add_credits_read(id, amount))
        /\ UNCHANGED <<call, hist>>

RaceAddWrite ==
    \E t \in DOMAIN threads :
        /\ OnUsersFile(add_credits_write(t))
        /\ Called("add_credits", threads[t], users)
        /\ hist' = Append(hist, Over(t))

RaceUseRead ==
    \E id \in Ids :
        /\ Len(threads) + Len(hist) < MaxRequests
        /\ OnUsersFile(use_token_read(id))
        /\ UNCHANGED <<call, hist>>

RaceUseWrite ==
    \E t \in DOMAIN threads :
        /\ OnUsersFile(use_token_write(t))
        /\ Called("use_token", threads[t], users)
        /\ hist' = Append(hist, Over(t))

NextRace ==
    \/ RaceRegister
    \/ RaceAddRead
    \/ RaceAddWrite
    \/ RaceUseRead
    \/ RaceUseWrite

SpecRace == InitRace /\ [][NextRace]_vars

(***************************************************************************)
(* SpecSide: the marketplace of src/main.py and the products table of      *)
(* src/database.py, given the same calls: each call goes to the file first *)
(* and to the table next.  hist lists the calls made, store by store, with *)
(* the id a create was given and the id a delete named.                    *)
(***************************************************************************)
InitSide ==
    /\ variant = "both"
    /\ Start

\* the call the table has still to be given (None when it is level with the file)
Owed ==
    IF Len(hist) % 2 = 1 THEN hist[Len(hist)] ELSE None

SideCreate ==
    \E product \in ProductBodies :
        /\ Owed = None
        /\ Len(hist) < 2 * MaxCalls
        /\ create_product(product, 1, ra)
        /\ Called("create_product", product, products)
        /\ hist' = Append(hist, [store |-> "file", op |-> "create",
                                 id |-> resp'.body["id"], product |-> product])
        /\ UNCHANGED <<variant, month, users, alerts, db, aside, fresh, credited>>

SideCreated ==
    /\ Owed # None
    /\ hist[Len(hist)].op = "create"
    /\ LET product == hist[Len(hist)].product
       IN db_create_product(1, ra, product.name, product.price,
                            product.description, product.type, product.phone)
    /\ Called("db_create_product", hist[Len(hist)].product, db.products)
    /\ hist' = Append(hist, [store |-> "table", op |-> "create",
                             id |-> db'.products[Len(db'.products)].id,
                             product |-> hist[Len(hist)].product])
    /\ UNCHANGED <<variant, month, users, alerts, products, aside, fresh, credited>>

SideDelete ==
    \E id \in ProductIds, product \in ProductBodies :
        /\ Owed = None
        /\ Len(hist) < 2 * MaxCalls
        /\ delete_product(id)
        /\ Called("delete_product", id, products)
        /\ hist' = Append(hist, [store |-> "file", op |-> "delete",
                                 id |-> id, product |-> product])
        /\ UNCHANGED <<variant, month, users, alerts, db, aside, fresh, credited>>

SideDeleted ==
    /\ Owed # None
    /\ hist[Len(hist)].op = "delete"
    /\ db_delete_product(hist[Len(hist)].id)
    /\ Called("db_delete_product", hist[Len(hist)].id, db.products)
    /\ hist' = Append(hist, [hist[Len(hist)] EXCEPT !.store = "table"])
    /\ UNCHANGED <<variant, month, users, alerts, products, aside, fresh, credited>>

NextSide ==
    \/ SideCreate
    \/ SideCreated
    \/ SideDelete
    \/ SideDeleted

SpecSide == InitSide /\ [][NextSide]_vars

(***************************************************************************)
(* SpecModel: the classifier of src/main.py.  hist lists the calls of      *)
(* initialize_plant_model: the one made as the module is imported, then    *)
(* one per predict request.                                                *)
(***************************************************************************)
InitModel ==
    /\ variant = "main"
    /\ Start

\* a call of initialize_plant_model, as the history keeps it
Initialized(op, artifact, inference) ==
    [op |-> op, artifact |-> artifact,
     before |-> plant_model,
     returned |-> initialize_plant_model(artifact, Len(hist) + 1).returned,
     after |-> plant_model',
     exists |-> initialize_plant_model(artifact, Len(hist) + 1).exists,
     load_model |-> initialize_plant_model(artifact, Len(hist) + 1).load_model,
     inferred |-> (op = "predict")
                      /\ resp'.body # [detail |-> "Disease detection model unavailable"],
     status |-> resp'.status]

\* the module is imported: initialize_plant_model()
ModelImport ==
    \E artifact \in Artifacts :
        /\ hist = <<>>
        /\ plant_model' = initialize_plant_model(artifact, 1).plant_model
        /\ resp' = Return("import", [detail |-> ""])
        /\ Called("import", <<>>, None)
        /\ hist' = Append(hist, Initialized("import", artifact, "none"))
        /\ UNCHANGED <<variant, month, users, alerts, products, db, reports,
                       env, mail, threads, fresh, credited>>

ModelPredict ==
    \E artifact \in Artifacts, inference \in Inferences :
        /\ hist # <<>>
        /\ Len(hist) < MaxLoads
        /\ predict_plant_disease(artifact, inference, Len(hist) + 1)
        /\ Called("predict", <<>>, None)
        /\ hist' = Append(hist, Initialized("predict", artifact, inference))
        /\ UNCHANGED <<variant, month, users, alerts, products, db, reports,
                       env, mail, threads, fresh, credited>>

NextModel ==
    \/ ModelImport
    \/ ModelPredict

SpecModel == InitModel /\ [][NextModel]_vars

(***************************************************************************)
(* SpecLedger: the token ledger of src/main.py without the PUT.  hist      *)
(* keeps, per user id, the month of the user's last purchase, whether the  *)
(* month's reset was behind the user at the purchase, and the balance the  *)
(* purchase left, less one per use-token that went through in that month.  *)
(* One user registers; id 2 and the name "si" stand for the users that are *)
(* not stored.                                                             *)
(***************************************************************************)
\* the history of a user after a call
Noted(id, entry) ==
    [i \in DOMAIN hist |-> IF i = id THEN entry ELSE hist[i]]

LedgerRegister ==
    \E name \in {ra}, type \in LedgerTypes :
        /\ OnStore("main", register_user(name, type))
        /\ Called("register", [name |-> name, type |-> type], users)
        /\ hist' = IF resp'.status = 200
                   THEN Append(hist, [month |-> 0, tokens |-> 0, settled |-> FALSE])
                   ELSE hist
        /\ UNCHANGED <<fresh, credited>>

LedgerLogin ==
    \E name \in LedgerLogins, type \in LedgerTypes :
        /\ OnStore("main", login_user(name, type))
        /\ Called("login", [name |-> name, type |-> type],
                  UserByLogin(users, name, type))
        /\ UNCHANGED <<fresh, credited, hist>>

LedgerGetTokens ==
    \E id \in Ids :
        /\ OnStore("main", get_user_tokens(id))
        /\ Called("tokens", [id |-> id], UserById(users, id))
        /\ UNCHANGED <<fresh, credited, hist>>

LedgerPurchase ==
    \E id \in Ids, quantity \in Quantities :
        /\ IF UserById(users, id) = None THEN TRUE
           ELSE UserById(users, id)["tokens"] + quantity <= MaxTokens
        /\ OnStore("main", purchase_tokens(id, quantity))
        /\ Called("purchase", [id |-> id, quantity |-> quantity], UserById(users, id))
        /\ hist' = IF resp'.status = 200
                   THEN Noted(id, [month |-> month, tokens |-> resp'.body.tokens,
                                   settled |-> UserById(users, id)["lastTokenReset"]
                                                   = get_current_month])
                   ELSE hist
        /\ UNCHANGED <<fresh, credited>>

LedgerUseToken ==
    \E id \in Ids :
        /\ OnStore("main", use_token(id))
        /\ Called("use", [id |-> id], UserById(users, id))
        /\ hist' = IF resp'.status = 200 /\ hist[id].month = month
                   THEN Noted(id, [hist[id] EXCEPT !.tokens = @ - 1])
                   ELSE hist
        /\ UNCHANGED <<fresh, credited>>

NextLedger ==
    \/ LedgerRegister
    \/ LedgerLogin
    \/ LedgerGetTokens
    \/ LedgerPurchase
    \/ LedgerUseToken
    \/ Tick

SpecLedger == Init /\ [][NextLedger]_vars

(***************************************************************************)
(* SpecErrors: the user ledger and the marketplace of src/main.py.  No     *)
(* handler of users.json reads or writes products.json, and none of        *)
(* products.json reads or writes users.json (create_product is handed the  *)
(* seller's id and name by the caller), so the two files are followed one  *)
(* at a time: the ledger while products.json is empty, the marketplace     *)
(* while users.json is empty.  One user registers; id 2 and the name "si"  *)
(* stand for the users that are not stored.                                *)
(***************************************************************************)
\* the amounts offered to add-credits here
ErrorsAmounts == {50}

\* a request on users.json, followed while products.json is empty
OnLedger(Handler) ==
    /\ products = <<>>
    /\ OnFile("main", Handler)
    /\ UNCHANGED <<fresh, credited>>

\* a request on products.json, followed while users.json is empty
OnMarket(Handler) ==
    /\ users = <<>>
    /\ OnProductsFile(Handler)
    /\ UNCHANGED <<fresh, credited>>

ErrorsRegister ==
    \E name \in {ra}, type \in LedgerTypes :
        /\ OnLedger(register_user(name, type))
        /\ Called("register", [name |-> name, type |-> type], users)

ErrorsLogin ==
    \E name \in LedgerLogins, type \in LedgerTypes :
        /\ OnLedger(login_user(name, type))
        /\ Called("login", [name |-> name, type |-> type], users)

ErrorsPut ==
    \E id \in Ids, credits \in PutCredits :
        /\ OnLedger(update_user(id, credits, None, None))
        /\ Called("update", [id |-> id, credits |-> credits], users)

ErrorsAddCredits ==
    \E id \in Ids, amount \in ErrorsAmounts :
        /\ WithinCredits(id, amount)
        /\ OnLedger(add_credits(id, amount))
        /\ Called("add_credits", [id |-> id, amount |-> amount], users)

ErrorsAddFriend ==
    \E id \in Ids, friend_name \in FriendNames :
        /\ OnLedger(add_friend(id, friend_name))
        /\ Called("add_friend", [id |-> id, friend_name |-> friend_name], users)

ErrorsGetTokens ==
    \E id \in Ids :
        /\ OnLedger(get_user_tokens(id))
        /\ Called("tokens", [id |-> id], users)

ErrorsPurchase ==
    \E id \in Ids, quantity \in Quantities :
        /\ IF UserById(users, id) = None THEN TRUE
           ELSE UserById(users, id)["tokens"] + quantity <= MaxTokens
        /\ OnLedger(purchase_tokens(id, quantity))
        /\ Called("purchase", [id |-> id, quantity |-> quantity], users)

ErrorsUseToken ==
    \E id \in Ids :
        /\ OnLedger(use_token(id))
        /\ Called("use", [id |-> id], users)

ErrorsCreate ==
    \E product \in ProductBodies :
        /\ Len(products) < MaxProducts
        /\ OnMarket(create_product(product, 1, ra))
        /\ Called("create_product", product, products)

ErrorsDelete ==
    \E id \in ProductIds :
        /\ OnMarket(delete_product(id))
        /\ Called("delete_product", [id |-> id], products)

ErrorsView ==
    \E id \in ProductIds :
        /\ WithinViews(products, id)
        /\ OnMarket(increment_view(id))
        /\ Called("increment_view", [id |-> id], products)

NextErrors ==
    \/ ErrorsRegister
    \/ ErrorsLogin
    \/ ErrorsPut
    \/ ErrorsAddCredits
    \/ ErrorsAddFriend
    \/ ErrorsGetTokens
    \/ ErrorsPurchase
    \/ ErrorsUseToken
    \/ ErrorsCreate
    \/ ErrorsDelete
    \/ ErrorsView
    \/ Tick

SpecErrors == Init /\ [][NextErrors]_vars

(***************************************************************************)
(* The vocabulary of the claims.                                           *)
(***************************************************************************)
\* two characters that are the same letter, whatever their case
SameLetter(a, b) ==
    \/ a = b
    \/ a \in 65..90 /\ b = a + 32
    \/ b \in 65..90 /\ a = b + 32

\* two names equal ignoring case
EqualIgnoringCase(x, y) ==
    /\ Len(x) = Len(y)
    /\ \A k \in 1..Len(x) : SameLetter(x[k], y[k])

\* a list holds a record of the type whose name equals the name ignoring case
Holds(list, name, type) ==
    \E k \in DOMAIN list :
        list[k]["type"] = type /\ EqualIgnoringCase(list[k]["name"], name)

\* the error kinds of the specification, as the handlers signal them
Conflict == resp.status = 400 /\ resp.body = [detail |-> "User already exists"]
NotFound == resp.status = 404
InvalidArgument == resp.status = 400 /\ resp.body = [detail |-> "Quantity must be at least 1"]
PaymentRequired == resp.status = 402
Succeeded == resp.status = 200

\* the records of the file-backed store with an id (one, while ids are unique)
Stored(id) ==
    {users[k] : k \in {j \in DOMAIN users : users[j]["id"] = id}}

\* a register call has just added one record, before the ones it found
AddedOne ==
    /\ Len(users) = Len(call.before) + 1
    /\ SubSeq(users, 1, Len(call.before)) = call.before

\* what a successful register call must have stored, tokens apart
NewUser(u) ==
    /\ u["name"] = call.args.name
    /\ u["type"] = call.args.type
    /\ u["credits"] = 0

GrantsTokens(u) ==
    "tokens" \in DOMAIN u /\ u["tokens"] = 5

\* a register call was the last request served
RegisterCalled ==
    call.op = "register" /\ variant \in {"main", "backend"}

Distinct(list) ==
    \A j, k \in DOMAIN list :
        j # k => ~(/\ list[j]["type"] = list[k]["type"]
                   /\ EqualIgnoringCase(list[j]["name"], list[k]["name"]))

\* C2: in every reachable state of the user store, file-backed or
\* table-backed, no two stored users have the same type and names that are
\* equal ignoring case.
C2_UniqueNameType ==
    Distinct(users) /\ Distinct(db.users)

\* create_user has stored a user whose type and name, ignoring case, another
\* stored user already had
C2_Witness ==
    /\ call.op = "create_user"
    /\ resp.status = 0
    /\ Holds(call.before, call.args.name, call.args.type)
    /\ Len(db.users) = Len(call.before) + 1

\* C3: for a freshly registered user, with no month boundary crossed and no
\* purchase or PUT of tokens in between, exactly the first 5 use-token calls
\* succeed, returning 4, 3, 2, 1, 0, and the 6th and every later one fails
\* with PaymentRequired.  fresh[id] counts the calls made, this one included.
C3_FiveFreeTokens ==
    \A id \in DOMAIN fresh :
        /\ fresh[id] >= 0 =>
              \A u \in Stored(id) :
                  u["tokens"] = IF fresh[id] <= 5 THEN 5 - fresh[id] ELSE 0
        /\ (call.op = "use" /\ call.args.id = id /\ fresh[id] >= 1) =>
              IF fresh[id] <= 5
              THEN Succeeded /\ resp.body.remainingTokens = 5 - fresh[id]
              ELSE PaymentRequired

\* C3's case: the sixth call on a fresh user has just been refused
C3_Witness ==
    \E id \in DOMAIN fresh :
        /\ fresh[id] = 6
        /\ call.op = "use"
        /\ call.args.id = id
        /\ PaymentRequired

\* a login, getTokens or useToken call has just been served for a stored user
LedgerRead ==
    call.op \in {"login", "tokens", "use"} /\ call.before # None

\* C4: when a user's stored reset month differs from the current month, a
\* login, getTokens or useToken call on the user sets the persisted balance
\* to exactly 5 (less the one debit for useToken) and the stored month to the
\* current one, whatever the balance was; when the stored month is the
\* current one these calls leave the balance alone, but for useToken's debit.
C4_MonthlyReset ==
    LedgerRead =>
        \A u \in Stored(call.before["id"]) :
            IF call.before["lastTokenReset"] # month
            THEN /\ u["lastTokenReset"] = month
                 /\ u["tokens"] = IF call.op = "use" THEN 4 ELSE 5
            ELSE /\ u["lastTokenReset"] = call.before["lastTokenReset"]
                 /\ u["tokens"] = IF call.op = "use" /\ Succeeded
                                  THEN call.before["tokens"] - 1
                                  ELSE call.before["tokens"]

\* C4's case: a login in a new month has cut a balance of 6 down to 5
C4_Witness ==
    /\ call.op = "login"
    /\ call.before # None
    /\ call.before["tokens"] = 6
    /\ call.before["lastTokenReset"] # month
    /\ \E u \in Stored(call.before["id"]) :
           u["tokens"] = 5 /\ u["lastTokenReset"] = month

\* C5: purchaseTokens(id, quantity) on an existing user fails with
\* InvalidArgument exactly when quantity < 1; otherwise the persisted balance
\* grows by exactly quantity, the returned balance is the persisted one, and
\* the returned totalCost is quantity times the unit price.
C5_Purchase ==
    (call.op = "purchase" /\ call.before # None) =>
        \A u \in Stored(call.args.id) :
            IF call.args.quantity < 1
            THEN InvalidArgument /\ u = call.before
            ELSE /\ Succeeded
                 /\ u["tokens"] = call.before["tokens"] + call.args.quantity
                 /\ resp.body.tokens = u["tokens"]
                 /\ resp.body.totalCost = call.args.quantity * TOKEN_PRICE

\* C5's case: two tokens were bought
C5_Witness ==
    /\ call.op = "purchase"
    /\ call.before # None
    /\ call.args.quantity = 2
    /\ Succeeded
    /\ resp.body.totalCost = 9998
    /\ resp.body.tokens = call.before["tokens"] + 2

\* C9: login(name, type) succeeds exactly when some stored user has a name
\* equal to the given one ignoring case and the very same type, and fails with
\* NotFound otherwise; so it succeeds with any case variant of a registered
\* name.  The table layer's lookup by name and type finds a row exactly then.
C9_Login ==
    /\ (call.op = "login") =>
           IF Holds(users, call.args.name, call.args.type)
           THEN /\ Succeeded
                /\ resp.body["type"] = call.args.type
                /\ EqualIgnoringCase(resp.body["name"], call.args.name)
           ELSE NotFound
    /\ (call.op = "get_user_by_name_type") =>
           IF Holds(db.users, call.args.name, call.args.type)
           THEN /\ resp.body # None
                /\ resp.body["type"] = call.args.type
                /\ EqualIgnoringCase(resp.body["name"], call.args.name)
           ELSE resp.body = None

\* C9's case: a login under a case variant of the registered name succeeded
C9_Witness ==
    /\ call.op = "login"
    /\ Succeeded
    /\ resp.body["name"] # call.args.name
    /\ resp.body["type"] = call.args.type

\* the balance of every stored user is what the history says it must be
BalanceIsSum ==
    \A k \in DOMAIN users : users[k]["credits"] = credited[users[k]["id"]]

\* C6: after any sequence of add-credits calls on an existing user, with
\* amounts positive, zero or negative, the user's balance is the balance it
\* started with plus the sum of the amounts: credited[id] is that sum, kept
\* beside the handlers.  Each call returns and stores the balance it found
\* plus its amount, with no floor at zero.
C6_AddCredits ==
    /\ BalanceIsSum
    /\ (call.op = "add_credits" /\ call.before # None) =>
           /\ Succeeded
           /\ resp.body["credits"] = call.before["credits"] + call.args.amount
           /\ resp.body = Put(call.before, "credits", resp.body["credits"])
           /\ UserById(users, call.args.id) = resp.body

\* an add-credits call with a negative amount has taken a balance below zero
C6_Witness ==
    /\ call.op = "add_credits"
    /\ Succeeded
    /\ call.args.amount < 0
    /\ call.before["credits"] >= 0
    /\ resp.body["credits"] < 0
    /\ UserById(users, call.args.id)["credits"] < 0

\* no two records of the list have the same value under the key
OnePer(list, key) ==
    \A j, k \in DOMAIN list : list[j][key] = list[k][key] => j = k

\* the position in the list of the record with the phone number, or 0
AtPhone(list, key, phone) ==
    FirstIndex({k \in DOMAIN list : list[k][key] = phone})

\* the list is the list before, but for the one record at position i
SameButAt(list, before, i) ==
    /\ Len(list) = Len(before)
    /\ \A k \in DOMAIN before : k # i => list[k] = before[k]

\* the list is the list before, with one record more at its end
OneMore(list, before) ==
    /\ Len(list) = Len(before) + 1
    /\ SubSeq(list, 1, Len(before)) = before

\* what register_for_alerts of src/main.py must have done to alerts.json
AlertUpsertOnFile ==
    LET i == AtPhone(call.before, "phoneNumber", call.args.phoneNumber)
        last == alerts[Len(alerts)]
    IN IF i # 0
       THEN /\ SameButAt(alerts, call.before, i)
            /\ alerts[i]["id"] = call.before[i]["id"]
            /\ alerts[i]["phoneNumber"] = call.args.phoneNumber
            /\ alerts[i]["farmerName"] = call.args.farmerName
            /\ alerts[i]["cropTypes"] = call.args.cropTypes
            /\ alerts[i]["alertRadius"] = call.args.alertRadius
       ELSE /\ OneMore(alerts, call.before)
            /\ last["phoneNumber"] = call.args.phoneNumber
            /\ last["farmerName"] = call.args.farmerName
            /\ last["cropTypes"] = call.args.cropTypes
            /\ last["alertRadius"] = call.args.alertRadius
            /\ last["isActive"] = TRUE

\* what create_or_update_alert_registration must have done to its table
AlertUpsertOnTable ==
    LET table == db.alert_registrations
        i == AtPhone(call.before, "phone_number", call.args.phoneNumber)
        last == table[Len(table)]
    IN IF i # 0
       THEN /\ SameButAt(table, call.before, i)
            /\ table[i].id = call.before[i].id
            /\ table[i].phone_number = call.args.phoneNumber
            /\ table[i].farmer_name = call.args.farmerName
            /\ table[i].crop_types = call.args.cropTypes
            /\ table[i].alert_radius = call.args.alertRadius
       ELSE /\ OneMore(table, call.before)
            /\ last.phone_number = call.args.phoneNumber
            /\ last.farmer_name = call.args.farmerName
            /\ last.crop_types = call.args.cropTypes
            /\ last.alert_radius = call.args.alertRadius
            /\ last.is_active = 1

\* C7: after any sequence of register-alert calls the store, file-backed or
\* table-backed, holds at most one registration per phone number; a call
\* whose phone number is on file overwrites that record's farmer name, crop
\* types and alert radius, keeps its id and leaves every other record and
\* the number of records as they were; a call with a new phone number adds
\* exactly one record, which is active.
C7_RegisterAlert ==
    /\ OnePer(alerts, "phoneNumber")
    /\ OnePer(db.alert_registrations, "phone_number")
    /\ call.op = "register_for_alerts" => AlertUpsertOnFile
    /\ call.op = "create_or_update_alert_registration" => AlertUpsertOnTable

\* a second registration under a phone number has replaced another farmer's
\* data, and the number on file is still the only record
C7_Witness ==
    /\ call.op = "register_for_alerts"
    /\ Len(call.before) = 1
    /\ call.before[1]["phoneNumber"] = call.args.phoneNumber
    /\ call.before[1]["farmerName"] # call.args.farmerName
    /\ call.before[1]["cropTypes"] # call.args.cropTypes
    /\ call.before[1]["alertRadius"] # call.args.alertRadius
    /\ Len(alerts) = 1
    /\ alerts[1]["farmerName"] = call.args.farmerName

\* the position in the list of the first product with the id, or 0
AtId(list, id) ==
    FirstIndex({k \in DOMAIN list : list[k]["id"] = id})

\* what a call that counts a view of product id must have stored and answered
\* with, when the list before held the product at position i
ViewCounted(list, before, i, answer) ==
    /\ SameButAt(list, before, i)
    /\ list[i] = Put(before[i], "views", before[i]["views"] + 1)
    /\ answer = list[i]

\* increment_view of src/main.py
ViewCountedOnFile ==
    LET i == AtId(call.before, call.args.id)
    IN IF i = 0
       THEN NotFound /\ products = call.before
       ELSE Succeeded /\ ViewCounted(products, call.before, i, resp.body)

\* increment_product_views of src/database.py; None is its NotFound
ViewCountedOnTable ==
    LET i == AtId(call.before, call.args.id)
    IN IF i = 0
       THEN resp.body = None /\ db.products = call.before
       ELSE ViewCounted(db.products, call.before, i, resp.body)

\* C8: increment_view on an id no stored product has answers NotFound; on
\* the id of a stored product it adds exactly 1 to that product's views and
\* answers with the updated product.  The same of increment_product_views.
C8_IncrementView ==
    /\ call.op = "increment_view" => ViewCountedOnFile
    /\ call.op = "increment_product_views" => ViewCountedOnTable

\* increment_product_views has added 1 to the views of a stored product and
\* answered with the views the product had before
C8_Witness ==
    /\ call.op = "increment_product_views"
    /\ AtId(call.before, call.args.id) # 0
    /\ get_product_by_id(db, call.args.id).views
           = call.before[AtId(call.before, call.args.id)].views + 1
    /\ resp.body.views = call.before[AtId(call.before, call.args.id)].views

\* no value is in the list twice
NoRepeat(list) ==
    \A j, k \in DOMAIN list : list[j] = list[k] => j = k

\* add_friend of src/main.py
FriendAddedOnFile ==
    LET user == UserById(users, call.args.id)
    IN IF call.before = None
       THEN NotFound /\ user = None
       ELSE /\ Succeeded
            /\ resp.body = user
            /\ IF InList(call.args.friend_name, call.before["friends"])
               THEN user = call.before
               ELSE user = Put(call.before, "friends",
                               Append(call.before["friends"], call.args.friend_name))

\* add_user_friend of src/database.py; None is its NotFound
FriendAddedOnTable ==
    LET user == get_user_by_id(db, call.args.id)
    IN IF call.before = None
       THEN resp.body = None /\ user = None
       ELSE IF InList(call.args.friend_name, call.before["friends"])
            THEN user = call.before /\ resp.body = call.before
            ELSE user = Put(call.before, "friends",
                            Append(call.before["friends"], call.args.friend_name))

\* C10: after any sequence of add-friend calls a user's friends hold each
\* name at most once; a call with a name already among them leaves the
\* friends and every other field of the user as they were; a call on a
\* missing user fails with NotFound.  For the file-backed and for the
\* table-backed store.
C10_AddFriend ==
    /\ \A k \in DOMAIN users : NoRepeat(users[k]["friends"])
    /\ \A id \in Ids : NoRepeat(get_user_friends(db, id))
    /\ call.op = "add_friend" => FriendAddedOnFile
    /\ call.op = "add_user_friend" => FriendAddedOnTable

\* a user with two friends has been handed one of them again, and is unchanged
C10_Witness ==
    /\ call.op = "add_friend"
    /\ Succeeded
    /\ Len(call.before["friends"]) = 2
    /\ InList(call.args.friend_name, call.before["friends"])
    /\ UserById(users, call.args.id) = call.before

\* mail credentials are configured
Credentials ==
    env.EMAIL_ADDRESS # "" /\ env.EMAIL_PASSWORD # ""

\* the single community send of the last request went through: there is a
\* community address, there are credentials, and the relay accepted
CommunitySendSucceeded ==
    env.COMMUNITY_EMAIL # "" /\ Credentials /\ call.args.relay = "accepts"

\* C11: submitReport has written the new report, status pending_verification,
\* by the time it awaits the Notification Sender; whatever the sender meets
\* (no community address, no credentials, a rejection by the relay) the
\* request succeeds, the report is still stored, and the count returned is
\* 1 if the single community send succeeded and 0 otherwise.
C11_SubmitReport ==
    /\ (threads # <<>> /\ threads[1].op = "report_disease") =>
           /\ reports # <<>>
           /\ reports[Len(reports)] = threads[1].locals.new_report
           /\ reports[Len(reports)]["status"] = "pending_verification"
           /\ SubSeq(reports, 1, Len(reports) - 1) = call.before
    /\ call.op = "report_disease_resumed" =>
           /\ Succeeded
           /\ resp.op = "report_disease"
           /\ reports = call.before
           /\ reports[Len(reports)] = resp.body.report
           /\ resp.body.report["status"] = "pending_verification"
           /\ resp.body.notified_farmers = IF CommunitySendSucceeded THEN 1 ELSE 0

\* a report was submitted with everything configured and the relay rejected
\* the community send: the request succeeded with a count of 0
C11_Witness ==
    /\ call.op = "report_disease_resumed"
    /\ env.COMMUNITY_EMAIL # ""
    /\ Credentials
    /\ call.args.relay = "rejects"
    /\ Len(mail) = 1
    /\ mail[1].handed
    /\ Succeeded
    /\ resp.body.notified_farmers = 0
    /\ reports[Len(reports)] = resp.body.report

\* C12: the Notification Sender returns false, and never raises, when mail
\* credentials are missing or the relay rejects the message (and true when
\* the relay accepts it); send-alert answers a false with a 500, while
\* send-community-alert succeeds with notifications_sent = 0.
C12_SenderFailure ==
    /\ \A k \in DOMAIN mail :
           /\ ~mail[k].raised
           /\ mail[k].handed = Credentials
           /\ mail[k].returned = (Credentials /\ call.args.relay = "accepts")
    /\ call.op = "send_alert" =>
           /\ Len(mail) = 1
           /\ mail[1].To = call.args.alert.email
           /\ IF mail[1].returned THEN Succeeded ELSE resp.status = 500
    /\ call.op = "send_community_alert" =>
           /\ Succeeded
           /\ Len(mail) = (IF env.COMMUNITY_EMAIL # "" THEN 1 ELSE 0)
           /\ resp.body.notifications_sent = IF CommunitySendSucceeded THEN 1 ELSE 0

\* the relay rejected a message that send-alert handed to it with credentials
\* configured: the sender returned false and the caller got a 500
C12_Witness ==
    /\ call.op = "send_alert"
    /\ Credentials
    /\ call.args.relay = "rejects"
    /\ mail[1].handed
    /\ ~mail[1].returned
    /\ ~mail[1].raised
    /\ resp.status = 500

\* the record is the one before with exactly the fields the update carries
\* set to what it carries
UpdatedBy(record, before, update) ==
    /\ DOMAIN record = DOMAIN before
    /\ \A f \in DOMAIN record :
           record[f] = IF f \in DOMAIN update /\ update[f] # None
                       THEN update[f][1] ELSE before[f]

\* update_user of src/main.py
UpdateFrameOnFile ==
    LET i == AtId(call.before, call.args.id)
    IN IF i = 0
       THEN NotFound /\ users = call.before
       ELSE /\ Succeeded
            /\ SameButAt(users, call.before, i)
            /\ UpdatedBy(users[i], call.before[i], call.args.update)
            /\ resp.body = users[i]

\* update_user of src/database.py; None is its NotFound
UpdateFrameOnTable ==
    LET i == AtId(call.before.users, call.args.id)
    IN IF i = 0
       THEN resp.body = None /\ db = call.before
       ELSE /\ SameButAt(db.users, call.before.users, i)
            /\ UpdatedBy(db.users[i], call.before.users[i], call.args.update)
            /\ db = [call.before EXCEPT !.users = db.users]

\* C13: a PUT of a user sets exactly the fields its request carries
\* (falsy values included) and leaves every other field of the user and
\* every other user as they were; on a missing id it fails with NotFound
\* and changes nothing.  For the file-backed and the table-backed store.
C13_UpdateFrame ==
    /\ call.op = "update_user" => UpdateFrameOnFile
    /\ call.op = "db_update_user" => UpdateFrameOnTable

\* with two users stored, a PUT carrying credits alone has changed the
\* credits of one of them
C13_Witness ==
    /\ call.op = "update_user"
    /\ Len(call.before) = 2
    /\ call.args.update.credits # None
    /\ call.args.update.friends = None
    /\ call.args.update.tokens = None
    /\ Succeeded
    /\ call.before[AtId(call.before, call.args.id)]["credits"] # resp.body["credits"]
    /\ call.before[AtId(call.before, call.args.id)]["tokens"] = resp.body["tokens"]

\* the stored records, in any order, whose location contains the filter
\* ignoring case; every record when there is no filter
Eligible(stored, location) ==
    {k \in DOMAIN stored :
        location = <<>> \/ \E j \in 0..(Len(stored[k]["location"]) - Len(location)) :
            EqualIgnoringCase(SubSeq(stored[k]["location"], j + 1, j + Len(location)),
                              location)}

\* the result lists, newest first and at most limit of them, eligible
\* records of the store, and leaves out no eligible record that is newer
\* than one it lists, nor any at all while it is shorter than limit
ListsRecent(result, stored, location, key, limit) ==
    /\ Len(result) <= limit
    /\ \A k \in DOMAIN result :
           \E s \in Eligible(stored, location) : stored[s] = result[k]
    /\ \A j, k \in DOMAIN result : j < k => result[j][key] >= result[k][key]
    /\ \A j, k \in DOMAIN result : j # k => result[j]["id"] # result[k]["id"]
    /\ \A s \in Eligible(stored, location) :
           \/ \E k \in DOMAIN result : result[k] = stored[s]
           \/ /\ Len(result) = limit
              /\ \A k \in DOMAIN result : stored[s][key] <= result[k][key]

\* the two listings name the same reports in the same order
SameReports(alerts_listed, rows_listed) ==
    /\ Len(alerts_listed) = Len(rows_listed)
    /\ \A k \in DOMAIN alerts_listed :
           /\ alerts_listed[k]["id"] = rows_listed[k].id
           /\ alerts_listed[k]["location"] = rows_listed[k].location
           /\ alerts_listed[k]["reportedAt"] = rows_listed[k].reported_at

\* the table holds the reports on file, as the migration leaves it
Migrated ==
    /\ Len(db.disease_reports) = Len(reports)
    /\ \A k \in DOMAIN reports : db.disease_reports[k].id = reports[k]["id"]

\* C14: a listing of recent reports returns at most 10 reports (the limit
\* given, for the table layer), each with a location that contains the
\* filter ignoring case, newest first, leaving out no eligible report newer
\* than one it returns; and with the same reports stored, the listing from
\* the file and the listing from the table name the same reports, whatever
\* the filter.
C14_ListRecent ==
    /\ call.op = "get_recent_alerts" =>
           ListsRecent(resp.body.alerts, reports, call.args.location, "reportedAt", 10)
    /\ call.op = "get_recent_disease_reports" =>
           ListsRecent(resp.body, db.disease_reports, call.args.location,
                       "reported_at", call.args.limit)
    /\ Migrated =>
           \A location \in Filters :
               SameReports(recent_alerts(reports, location),
                           recent_disease_reports(db, location, 10))

\* the listing from the table has returned a report whose location does not
\* contain the filter it was given
C14_Witness ==
    /\ call.op = "get_recent_disease_reports"
    /\ call.args.location # <<>>
    /\ resp.body # <<>>
    /\ \A k \in DOMAIN resp.body :
           ~Contains(Lower(call.args.location), Lower(resp.body[k].location))

\* the stored collection is the collection the request had read, but for the
\* one field of the one user the request changed
WroteOwnCopy(field, by) ==
    LET local == call.args.users
        i == MatchId(local, call.args.user_id)
    IN /\ Len(users) = Len(local)
       /\ \A k \in DOMAIN users : k # i => users[k] = local[k]
       /\ users[i] = Put(local[i], field, local[i][field] + by)

\* C15: a request writes back the collection it read, with its own change
\* and nothing else: a successful add-credits leaves the balance it had read
\* plus its amount, a successful use-token the tokens it had read less one,
\* whatever other requests stored between its read and its write (so that of
\* two overlapping requests that both succeed, the first one's update is lost)
C15_LastWriteWins ==
    /\ (call.op = "add_credits" /\ Succeeded)
           => WroteOwnCopy("credits", call.args.amount)
    /\ (call.op = "use_token" /\ Succeeded)
           => WroteOwnCopy("tokens", -1)

\* addCredits(id, a) and addCredits(id, b) both answered 200, and the balance
\* is old+b
C15_Witness ==
    /\ Len(hist) = 2
    /\ hist[1].op = "add_credits" /\ hist[2].op = "add_credits"
    /\ hist[1].status = 200 /\ hist[2].status = 200
    /\ hist[1].user_id = hist[2].user_id
    /\ hist[1].amount # 0 /\ hist[2].amount # 0
    /\ hist[1].read["credits"] = hist[2].read["credits"]
    /\ UserById(users, hist[2].user_id)["credits"]
           = hist[2].read["credits"] + hist[2].amount
    /\ UserById(users, hist[2].user_id)["credits"]
           # hist[2].read["credits"] + hist[1].amount + hist[2].amount

\* two useToken calls both answered 200, and one token is gone
TokenDebitedOnce ==
    /\ Len(hist) = 2
    /\ hist[1].op = "use_token" /\ hist[2].op = "use_token"
    /\ hist[1].status = 200 /\ hist[2].status = 200
    /\ hist[1].user_id = hist[2].user_id
    /\ hist[1].read["tokens"] = hist[2].read["tokens"]
    /\ UserById(users, hist[2].user_id)["tokens"] = hist[2].read["tokens"] - 1

\* the calls of a kind a store was given so far, in order
CallsOf(store, op) ==
    SelectSeq(hist, LAMBDA c : c.store = store /\ c.op = op)

\* the ids a store gave to the create calls so far, in order
IdsOf(store) ==
    [k \in DOMAIN CallsOf(store, "create") |-> CallsOf(store, "create")[k].id]

\* C16: given the same create and delete calls, the file-backed store and the
\* table-backed store give every create call the same id as long as no delete
\* call was made; and the table-backed store never gives an id it gave before
C16_SideBySide ==
    /\ (CallsOf("file", "delete") = <<>>)
           => \A k \in DOMAIN IdsOf("table") : IdsOf("table")[k] = IdsOf("file")[k]
    /\ \A j, k \in DOMAIN IdsOf("table") : j # k => IdsOf("table")[j] # IdsOf("table")[k]

\* after a delete call, a create call was given one id by the file-backed
\* store and another by the table-backed store
C16_Witness ==
    /\ Len(hist) >= 2
    /\ CallsOf("table", "delete") # <<>>
    /\ hist[Len(hist)].store = "table" /\ hist[Len(hist)].op = "create"
    /\ hist[Len(hist) - 1].store = "file" /\ hist[Len(hist) - 1].op = "create"
    /\ hist[Len(hist)].id # hist[Len(hist) - 1].id

\* C17: the classifier handle goes from unset to loaded and never back: a call
\* made while a handle is held returns that handle, keeps it and attempts no
\* load; a call made while the handle is unset looks for the artifact again
\* and loads it when it is there, holds a handle afterwards exactly when the
\* load went through, and when it did not, the predict request is answered
\* with an error and no inference is run
C17_LoadOnce ==
    /\ \A k \in DOMAIN hist :
          /\ hist[k].before = (IF k = 1 THEN None ELSE hist[k - 1].after)
          /\ hist[k].before # None =>
                /\ hist[k].after = hist[k].before
                /\ hist[k].returned = hist[k].before
                /\ ~hist[k].exists /\ ~hist[k].load_model
          /\ hist[k].before = None =>
                /\ hist[k].exists
                /\ hist[k].load_model = (hist[k].artifact # "missing")
                /\ (hist[k].after # None) = (hist[k].artifact = "sound")
                /\ hist[k].returned = hist[k].after
                /\ (hist[k].after = None /\ hist[k].op = "predict") =>
                      /\ hist[k].status = 500
                      /\ ~hist[k].inferred
    /\ hist # <<>> => plant_model = hist[Len(hist)].after

\* a predict request failed on a load that failed, the next one loaded the
\* model, and a later one was served by the same handle without a load
C17_Witness ==
    /\ Len(hist) = 4
    /\ hist[1].after = None
    /\ hist[2].op = "predict" /\ hist[2].artifact = "broken"
    /\ hist[2].load_model /\ hist[2].status = 500
    /\ hist[3].load_model /\ hist[3].after # None /\ hist[3].status = 200
    /\ hist[4].artifact = "sound" /\ ~hist[4].load_model
    /\ hist[4].returned = hist[3].after /\ plant_model = hist[3].after
    /\ hist[4].status = 200

\* C18: with register, login, getTokens, purchaseTokens and useToken calls
\* only, the token balance of every stored user is an integer that is 0 or
\* more
C18_TokensNeverNegative ==
    \A k \in DOMAIN users : users[k]["tokens"] \in Nat

\* a useToken call found the balance at 0, was refused, and left it at 0
C18_Witness ==
    /\ call.op = "use"
    /\ resp.status = 402
    /\ call.before # None
    /\ call.before["tokens"] = 0
    /\ UserById(users, call.args.id)["tokens"] = 0

\* C20: tokens purchased in a calendar month are not discarded within that
\* month: as long as the month of a user's last purchase lasts, the stored
\* balance is what the purchase left, less one per useToken call that went
\* through since
C20_KeptWithinMonth ==
    \A id \in DOMAIN hist :
        hist[id].month = month
            => UserById(users, id)["tokens"] = hist[id].tokens

\* the same, for the purchases made after the month's reset had been applied
KeptOnceReset ==
    \A id \in DOMAIN hist :
        (hist[id].month = month /\ hist[id].settled)
            => UserById(users, id)["tokens"] = hist[id].tokens

\* a login, getTokens or useToken call was answered in the month of the
\* user's last purchase
C20_Witness ==
    /\ call.op \in {"login", "tokens", "use"}
    /\ Succeeded
    /\ call.before # None
    /\ call.before["id"] \in DOMAIN hist
    /\ hist[call.before["id"]].month = month

\* C19: after any create and delete calls on the file-backed marketplace no
\* two stored products have the same id, and a delete call removes at most
\* one product
C19_UniqueProductIds ==
    /\ \A j, k \in DOMAIN products :
           products[j]["id"] = products[k]["id"] => j = k
    /\ call.op = "delete_product" => Len(call.before) - Len(products) <= 1

\* a create call on the file-backed marketplace gave the new product an id
\* that a stored product has
C19_Witness ==
    /\ variant = "main"
    /\ call.op = "create_product"
    /\ Succeeded
    /\ \E k \in DOMAIN call.before : call.before[k]["id"] = resp.body["id"]

\* the call just answered was refused
Refused ==
    /\ call'.op \notin {"start", "tick"}
    /\ resp'.status # 200

\* C21: a call of the user ledger or of the marketplace that is answered with
\* an error (400 on a duplicate register or on a purchase of less than 1
\* token, 404 on a user or a product that is not stored, 402 on a use-token
\* without tokens) leaves users.json and products.json as they were
C21_ErrorsChangeNothing ==
    [][Refused => (users' = users /\ products' = products)]_vars

\* a use-token call was refused with 402 and the user's record is as it was
C21_Witness ==
    /\ call.op = "use"
    /\ resp.status = 402
    /\ call.before # <<>>
    /\ users = call.before

====
